---- MODULE Spec2Model ----
(***************************************************************************)
(* RetroFit Image Capture Service: capture -> ROI extraction -> local     *)
(* save -> Google Drive upload (rclone) -> ThingSpeak status, with a      *)
(* failed-upload backlog, image retention, a health file and signal       *)
(* driven shutdown.                                                        *)
(*                                                                         *)
(* Spec        the service loop of main_service.py with capture.py        *)
(* SpecBacklog the backlog deque driven by enqueues and drains            *)
(* SpecPrune   _cleanup_old_images over bounded directories               *)
(* SpecTS      ThingSpeakReporter.send_status with a clock                *)
(* SpecExtract extract_roi over bounded detector outcomes                 *)
(* SpecCapture capture_image for every max_retries, with fairness         *)
(* SpecUpload  RcloneUploader: setup validation and upload calls          *)
(* SpecRestart the backlog across a stop and a new start of the process   *)
(***************************************************************************)
EXTENDS Integers, Sequences, FiniteSets, TLC

\* ---------------------------------------------------------------- constants
MIN_FREE_DISK_MB == 50
MAX_BACKLOG_SIZE == 20
KEEP_COUNT == 50
CAPTURE_INTERVAL_MINUTES == 5
ERROR_RETRY_SECONDS == 60
CAPTURE_MAX_RETRIES == 2
BACKLOG_MAX_REQUEUES == 2
THINGSPEAK_STATUS_ARUCO_SUCCESS == 1
THINGSPEAK_STATUS_NO_ARUCO == 0
THINGSPEAK_STATUS_ERROR == 2
TS_TIMEOUT == 15
TS_MAX_RETRIES == 2
TS_RETRY_DELAY == 3
MIN_UPDATE_INTERVAL == 16
UP_MAX_RETRIES == 3
RETRY_DELAYS == << 2, 5, 10 >>

\* ------------------------------------------------------------------- bounds
MaxCycles == 2
MaxDrainCycles == 4
MaxScheduleCycles == 4
MaxSignals == 3
MaxEnqueue == 22
MaxFiles == 5
MaxKeep == 4
MaxCalls == 3
MaxAttempts == 4
MaxRestartCycles == 3
MaxStarts == 2
MaxUploadCalls == 2
StartTime == 100

\* ---------------------------------------------------------------- variables
VARIABLES
    pc,               \* position of the main thread
    cycle_count,      \* self._cycle_count
    success_count,    \* self._success_count
    upload_backlog,   \* self.upload_backlog (deque, head first)
    retried,          \* _retry_backlog's local list
    item,             \* _retry_backlog's popped item, << >> outside the loop body
    files,            \* *.jpg present in capture_output, named by timestamp
    has_gpio,         \* capture.HAS_GPIO
    gpio_initialized, \* capture.GPIO_INITIALIZED
    led,              \* level of the LED pin
    camera_open,      \* a camera object is open
    attempt,          \* loop index of capture_image
    max_retries,      \* the max_retries argument of capture_image
    image,            \* capture_image's result: "unset", "img" or "None"
    aruco_detected,   \* process_cycle's aruco_detected
    filepath,         \* file saved by this cycle (0: none)
    path,             \* which branch of process_cycle decided the status
    reports,          \* status codes passed to _send_thingspeak_status this cycle
    ts_configured,    \* self.thingspeak is not None
    ts_sent,          \* status codes handed to send_status this cycle
    ts_outcome,       \* how that send_status call ended ("none": not called)
    success,          \* process_cycle's return value: "unset", "True" or "False"
    did,              \* stages the current cycle body has entered
    bl_before,        \* the backlog when process_cycle was entered
    health,           \* content of health.json
    health_tried,     \* the last _write_health call: its status and how the write went
    shutdown_at,      \* pc at which a signal was delivered ("none" before)
    led_at_signal,    \* LED level when the signal was delivered
    free_mb,          \* free MB the disk check saw (-1: not checked, -2: it raised)
    harness,          \* inputs and results of the component specifications
    now,              \* time.time(), in seconds
    last_update_time, \* ThingSpeakReporter._last_update_time
    ts_pc,            \* position inside send_status
    ts_attempt,       \* loop index of send_status
    ts_calls,         \* send_status calls made so far
    req_prev,         \* start time of the request before the last one (-1: none)
    req_last,         \* start time of the last request (-1: none)
    is_configured,    \* RcloneUploader.is_configured
    up_pc,            \* position inside RcloneUploader
    up_attempt,       \* loop index of upload_with_verification
    up_log,           \* subprocesses run and pauses made by the current call
    up_result         \* what the call returned: "none", "True" or "False"

vars == << pc, cycle_count, success_count, upload_backlog, retried, files,
           has_gpio, gpio_initialized, led, camera_open, attempt, max_retries,
           image, aruco_detected, filepath, path, reports, ts_configured, ts_sent,
           ts_outcome, success, did, bl_before, health, health_tried, shutdown_at,
           led_at_signal, free_mb, harness, item, now, last_update_time,
           ts_pc, ts_attempt, ts_calls, req_prev, req_last, is_configured,
           up_pc, up_attempt, up_log, up_result >>

captureVars == << has_gpio, gpio_initialized, led, camera_open, attempt, max_retries,
                  image >>
loopVars == << cycle_count, success_count >>
backlogVars == << upload_backlog, retried, item >>
reporterVars == << now, last_update_time, ts_pc, ts_attempt, ts_calls, req_prev, req_last >>
cycleVars == << aruco_detected, filepath, path, reports, ts_sent, ts_outcome, success, did,
                bl_before, free_mb >>
healthVars == << health, health_tried >>
signalVars == << shutdown_at, led_at_signal >>
uploaderVars == << is_configured, up_pc, up_attempt, up_log, up_result >>

\* ------------------------------------------------------------------ helpers
Max(a, b) == IF a >= b THEN a ELSE b

RECURSIVE SeqFilter(_, _)
SeqFilter(s, keep) ==
    IF s = << >> THEN << >>
    ELSE IF Head(s).filepath \in keep
         THEN << Head(s) >> \o SeqFilter(Tail(s), keep)
         ELSE SeqFilter(Tail(s), keep)

BacklogFiles(q) == { q[i].filepath : i \in 1..Len(q) }

\* deque(maxlen=MAX_BACKLOG_SIZE).append: a full deque discards its head
DequeAppendUnbounded(q, entry) == Append(q, entry)

DequeAppendEvictNewest(q, entry) ==
    IF Len(q) >= MAX_BACKLOG_SIZE
    THEN Append(SubSeq(q, 1, Len(q) - 1), entry)
    ELSE Append(q, entry)

DequeAppend(q, entry) ==
    IF Len(q) >= MAX_BACKLOG_SIZE
    THEN Append(Tail(q), entry)
    ELSE Append(q, entry)

BacklogEntry(f, detected) ==
    [ filepath |-> f, aruco_detected |-> detected, retries |-> 0, timestamp |-> f ]

\* line 253: if item['retries'] <= 2
KeepRetryingAlways(retries) == TRUE

KeepRetrying(retries) == retries <= BACKLOG_MAX_REQUEUES

\* line 252: item['retries'] = item.get('retries', 0) + 1
CountRetrySkipped(e) == e

CountRetry(e) == [ e EXCEPT !.retries = @ + 1 ]

\* _retry_backlog's re-queue loop: count the failure, keep up to 2 re-queues
RECURSIVE Requeue(_, _)
Requeue(q, rs) ==
    IF rs = << >> THEN q
    ELSE LET it == CountRetry(Head(rs))
         IN  IF KeepRetrying(it.retries)
             THEN Requeue(DequeAppend(q, it), Tail(rs))
             ELSE Requeue(q, Tail(rs))

\* images sorted by st_mtime, newest first: the keep_count newest ones
NewestKOffByOne(imgs, keep) ==
    { f \in imgs : Cardinality({ g \in imgs : g > f }) < keep + 1 }

NewestK(imgs, keep) ==
    { f \in imgs : Cardinality({ g \in imgs : g > f }) < keep }

\* the files _cleanup_old_images unlinks; the unlink numbered failAt raises
UnlinkedIgnoringBacklog(imgs, q, keep, failAt) ==
    LET cand == imgs \ NewestK(imgs, keep)
    IN  { f \in cand : Cardinality({ g \in cand : g > f }) < failAt }

Unlinked(imgs, q, keep, failAt) ==
    LET cand == (imgs \ NewestK(imgs, keep)) \ BacklogFiles(q)
    IN  { f \in cand : Cardinality({ g \in cand : g > f }) < failAt }

CleanupOldImages(imgs, q, keep, failAt) ==
    IF Cardinality(imgs) > keep THEN imgs \ Unlinked(imgs, q, keep, failAt) ELSE imgs

\* the message strings of the health file: what they say, not their spelling
Msg(kind, n, result) == [ kind |-> kind, cycle |-> n, result |-> result ]

\* the dictionary _write_health dumps
HealthRecord(status, message, cycles, succ, q) ==
    [ status |-> status, message |-> message, uptime_cycles |-> cycles,
      success_count |-> succ, backlog_size |-> Len(q) ]

\* open(HEALTH_FILE, 'w') + json.dump: written, not opened, or cut short
WriteOutcomes == { "written", "open_failed", "truncated" }

NoHealth(status) ==
    [ status |-> status, message |-> Msg("none", 0, "none"), uptime_cycles |-> 0,
      success_count |-> 0, backlog_size |-> 0 ]

WriteHealth(old, rec, outcome) ==
    CASE outcome = "written" -> rec
      [] outcome = "open_failed" -> old
      [] OTHER -> NoHealth("truncated")

StatusForIgnoringDetection(p, detected) ==
    IF p = "ok" THEN THINGSPEAK_STATUS_ARUCO_SUCCESS ELSE THINGSPEAK_STATUS_ERROR

\* the status code process_cycle passes on each of its branches
StatusFor(p, detected) ==
    IF p = "ok"
    THEN IF detected THEN THINGSPEAK_STATUS_ARUCO_SUCCESS ELSE THINGSPEAK_STATUS_NO_ARUCO
    ELSE THINGSPEAK_STATUS_ERROR

\* ------------------------------------------------------------- extract_roi
REQUIRED_IDS == { 0, 1, 2, 3 }
MaxMarkers == 5
MarkerIds == 0..4

RECURSIVE SeqsUpTo(_, _)
SeqsUpTo(S, n) ==
    IF n = 0 THEN { << >> }
    ELSE LET shorter == SeqsUpTo(S, n - 1)
         IN  shorter \cup { Append(q, x) : q \in { r \in shorter : Len(r) = n - 1 }, x \in S }

\* what the input image and the detection library do on one call
\*   image  "None" | "empty" | "img"
\*   cvt    cv2.cvtColor: "ok" | "raise"
\*   aruco  the aruco module: "present" | "missing"
\*   api    the OpenCV 4.7 calls: "ok" | "AttributeError" | "error"
\*   legacy the legacy calls: "ok" | "error"
\*   found  detectMarkers returned ids (FALSE: ids is None)
\*   ids    the ids it returned, in detection order
\*   warp   getPerspectiveTransform/warpPerspective: "ok" | "raise"
ExtractInput(image_, cvt, aruco, api, legacy, found, ids, warp) ==
    [ image |-> image_, cvt |-> cvt, aruco |-> aruco, api |-> api, legacy |-> legacy,
      found |-> found, ids |-> ids, warp |-> warp ]

DetectionInputs ==
    { ExtractInput("img", "ok", "present", api, "ok", TRUE, ids, warp) :
        api \in { "ok", "AttributeError" }, ids \in SeqsUpTo(MarkerIds, MaxMarkers),
        warp \in { "ok", "raise" } }

FaultInputs ==
    { ExtractInput(im, cvt, aruco, api, legacy, found, << >>, "ok") :
        im \in { "None", "empty", "img" }, cvt \in { "ok", "raise" },
        aruco \in { "present", "missing" }, api \in { "ok", "AttributeError", "error" },
        legacy \in { "ok", "error" }, found \in BOOLEAN }

ExtractInputs == DetectionInputs \cup FaultInputs

\* the inputs the service loop is run on
ServiceExtractInputs ==
    { ExtractInput("img", "ok", "present", "ok", "ok", TRUE, ids, warp) :
        ids \in { << >>, << 0, 1, 2 >>, << 3, 0, 2, 1 >>, << 0, 1, 2, 4 >> },
        warp \in { "ok", "raise" } }
    \cup { in \in FaultInputs : in.legacy = "error" /\ ~in.found }

SeqRange(q) == { q[i] : i \in 1..Len(q) }

\* lines 83-147 with the check of the required ids left out
ExtractGeometryCountOnly(in) ==
    IF ~in.found \/ Len(in.ids) < 4 THEN "None"
    ELSE IF in.warp = "raise" THEN "raise"
    ELSE "roi"

\* lines 83-147: the marker checks and the warp
ExtractGeometry(in) ==
    IF ~in.found \/ Len(in.ids) < 4 THEN "None"
    ELSE IF ~(REQUIRED_IDS \subseteq SeqRange(in.ids)) THEN "None"
    ELSE IF in.warp = "raise" THEN "raise"
    ELSE "roi"

\* lines 54-147: the body of the try block; "raise" is an exception leaving it
ExtractTry(in) ==
    IF in.cvt = "raise" THEN "raise"
    ELSE IF in.aruco = "missing" THEN "None"
    ELSE IF in.api = "error" THEN "raise"
    ELSE IF in.api = "AttributeError" /\ in.legacy = "error" THEN "None"
    ELSE ExtractGeometry(in)

\* lines 149-151: except Exception: return None
ExtractExceptMissing(r) == r

ExtractExcept(r) == IF r = "raise" THEN "None" ELSE r

extract_roi(in) ==
    IF in.image \in { "None", "empty" } THEN "None"
    ELSE ExtractExcept(ExtractTry(in))

\* ------------------------------------------------------------ service loop
IdleReporter ==
    /\ now = 0 /\ last_update_time = 0 /\ ts_pc = "idle" /\ ts_attempt = 0
    /\ ts_calls = 0 /\ req_prev = -1 /\ req_last = -1

\* the uploader between calls; what its calls return is an input of the loop
IdleUploader ==
    /\ is_configured = TRUE /\ up_pc = "idle" /\ up_attempt = 0
    /\ up_log = << >> /\ up_result = "none"

FreshCycle ==
    /\ aruco_detected = FALSE /\ filepath = 0 /\ path = "none" /\ reports = << >>
    /\ ts_sent = << >> /\ ts_outcome = "none" /\ success = "unset" /\ did = {} /\ bl_before = << >>
    /\ free_mb = -1

\* the process after ImageCaptureService.__init__, before run()
Init ==
    /\ pc = "run_start"
    /\ cycle_count = 0 /\ success_count = 0
    /\ upload_backlog = << >> /\ retried = << >> /\ item = << >>
    /\ files = {}
    /\ has_gpio \in BOOLEAN
    /\ gpio_initialized = FALSE
    /\ led \in (IF has_gpio THEN { "LOW", "HIGH" } ELSE { "LOW" })
    /\ camera_open = FALSE /\ attempt = 0 /\ image = "unset"
    /\ max_retries = CAPTURE_MAX_RETRIES
    /\ ts_configured \in BOOLEAN
    /\ FreshCycle
    /\ health = NoHealth("absent") /\ health_tried = [ status |-> "none", outcome |-> "none" ]
    /\ shutdown_at = "none" /\ led_at_signal = "none"
    /\ harness = [ op |-> "service" ]
    /\ IdleReporter /\ IdleUploader

\* run(), lines 405-411
RunStart ==
    /\ pc = "run_start"
    /\ cycle_count' = 0 /\ success_count' = 0
    /\ \E w \in WriteOutcomes :
         /\ health' = WriteHealth(health,
                         HealthRecord("running", Msg("started", 0, "none"), 0, 0, upload_backlog), w)
         /\ health_tried' = [ status |-> "running", outcome |-> w ]
    /\ pc' = "loop_top"
    /\ UNCHANGED << backlogVars, files, captureVars, cycleVars, ts_configured,
                    signalVars, harness, reporterVars, uploaderVars >>

\* __init__, line 156: the wait between cycles, in seconds
capture_interval == CAPTURE_INTERVAL_MINUTES * 60

\* the number of cycles a run of the model goes through
CycleBound ==
    CASE harness.op \in { "drain", "deliveries" } -> MaxDrainCycles
      [] harness.op = "schedule" -> MaxScheduleCycles
      [] OTHER -> MaxCycles

\* the record of the times at which the cycles began
ScheduleStart(h, t) ==
    IF h.op = "schedule" THEN [ h EXCEPT !.starts = Append(@, t) ] ELSE h

\* time.sleep(seconds) at time t returns at t + seconds; the clock is followed
\* where the cycle start times are recorded
AfterSleep(h, t, seconds) == IF h.op \in { "schedule", "drain" } THEN t + seconds ELSE t

\* the deliver calls made so far for the file of every cycle
CycleCalls(h) ==
    IF h.op = "deliveries" THEN [ h EXCEPT !.calls = Append(@, 0) ] ELSE h

DeliverCall(h, f) ==
    IF h.op = "deliveries" THEN [ h EXCEPT !.calls[f] = @ + 1 ] ELSE h

\* the record of one drain: the backlog _retry_backlog found and the calls it
\* made
DrainStart(h, q) ==
    IF h.op = "drain" THEN [ h EXCEPT !.start = q, !.log = << >> ] ELSE CycleCalls(h)

DrainLog(h, ev, e, ok) ==
    IF h.op = "drain"
    THEN [ h EXCEPT !.log = Append(@, [ ev |-> ev, filepath |-> e.filepath, ok |-> ok ]) ]
    ELSE IF ev = "deliver" THEN DeliverCall(h, e.filepath) ELSE h

\* run(), lines 413-427: count the cycle, then _retry_backlog's entry test (228-233)
LoopTop ==
    /\ pc = "loop_top"
    /\ cycle_count < CycleBound
    /\ cycle_count' = cycle_count + 1
    /\ retried' = << >>
    /\ harness' = ScheduleStart(DrainStart(harness, upload_backlog), now)
    /\ pc' = IF upload_backlog = << >> THEN "process_cycle" ELSE "retry_loop"
    /\ UNCHANGED << success_count, upload_backlog, item, files, captureVars,
                    cycleVars, ts_configured, healthVars, signalVars,
                    reporterVars, uploaderVars >>

\* line 235: item = self.upload_backlog.popleft()
pop_right(q) == [ item |-> q[Len(q)], rest |-> SubSeq(q, 1, Len(q) - 1) ]

popleft(q) == [ item |-> Head(q), rest |-> Tail(q) ]

\* line 238: os.path.exists(filepath)
path_exists_always(f, fs) == TRUE

path_exists(f, fs) == f \in fs

\* _retry_backlog, lines 234-240: popleft, drop the item whose file is gone
RetryPop ==
    /\ pc = "retry_loop"
    /\ upload_backlog # << >>
    /\ LET p == popleft(upload_backlog)
       IN  /\ upload_backlog' = p.rest
           /\ IF path_exists(p.item.filepath, files)
              THEN item' = << p.item >> /\ pc' = "retry_upload"
              ELSE item' = << >> /\ pc' = "retry_loop"
           /\ harness' = DrainLog(harness, "pop", p.item, path_exists(p.item.filepath, files))
    /\ UNCHANGED << loopVars, retried, files, captureVars, cycleVars, ts_configured,
                    healthVars, signalVars, reporterVars, uploaderVars >>

\* what upload_with_verification can return: False at once when the uploader
\* is not configured (rclone_uploader.py:111-113), else True or False
DeliverResults(configured) == IF configured THEN BOOLEAN ELSE { FALSE }

\* _retry_backlog, lines 242-247: the upload returns, a failed item is kept aside
RetryUpload ==
    /\ pc = "retry_upload"
    /\ \E drive_ok \in DeliverResults(is_configured) :
         /\ retried' = IF drive_ok THEN retried ELSE Append(retried, item[1])
         /\ harness' = DrainLog(harness, "deliver", item[1], drive_ok)
    /\ item' = << >>
    /\ pc' = "retry_loop"
    /\ UNCHANGED << loopVars, upload_backlog, files, captureVars, cycleVars,
                    ts_configured, healthVars, signalVars, reporterVars, uploaderVars >>

\* _retry_backlog, lines 249-255: the loop ends, failed items are re-queued
RetryRequeue ==
    /\ pc = "retry_loop"
    /\ upload_backlog = << >>
    /\ upload_backlog' = Requeue(upload_backlog, retried)
    /\ retried' = << >>
    /\ pc' = "process_cycle"
    /\ UNCHANGED << loopVars, item, files, captureVars, cycleVars, ts_configured,
                    healthVars, signalVars, harness, reporterVars, uploaderVars >>

\* shutil.disk_usage('/').free in MB, as the check may see it
DiskReadings == { 0, 49, 50, 149, 150 }

\* _check_disk_space: False only below the floor; a failing disk_usage lets the
\* cycle run
check_disk_space_strict(raised, mb) == raised \/ ~(mb < MIN_FREE_DISK_MB - 1)

check_disk_space(raised, mb) == raised \/ ~(mb < MIN_FREE_DISK_MB)

\* process_cycle, lines 268-281
DiskCheck ==
    /\ pc = "process_cycle"
    /\ bl_before' = upload_backlog
    /\ \E raised \in BOOLEAN, mb \in DiskReadings :
         /\ free_mb' = IF raised THEN -2 ELSE mb
         /\ IF check_disk_space(raised, mb)
            THEN pc' = "capture_image" /\ path' = path
            ELSE pc' = "report" /\ path' = "disk"
    /\ did' = did \cup { "diskcheck" }
    /\ UNCHANGED << loopVars, backlogVars, files, captureVars, aruco_detected,
                    filepath, reports, ts_sent, ts_outcome, success, ts_configured, healthVars,
                    signalVars, harness, reporterVars, uploaderVars >>

\* ----------------------------------------------------------- capture_image
\* _init_gpio, lines 54-64
InitGpio ==
    /\ pc = "capture_image"
    /\ IF has_gpio /\ ~gpio_initialized
       THEN led' = "LOW" /\ gpio_initialized' = TRUE
       ELSE UNCHANGED << led, gpio_initialized >>
    /\ attempt' = 0
    /\ image' = "unset"
    /\ did' = did \cup { "capture" }
    /\ pc' = "led_on"
    /\ UNCHANGED << loopVars, backlogVars, files, has_gpio, max_retries, camera_open,
                    aruco_detected, filepath, path, reports, ts_sent, ts_outcome, success,
                    bl_before, free_mb, ts_configured, healthVars, signalVars,
                    harness, reporterVars, uploaderVars >>

\* _led_on and _led_off, lines 67-76
led_on_skipped(level) == level

led_on(level) == IF has_gpio THEN "HIGH" ELSE level

led_off(level) == IF has_gpio THEN "LOW" ELSE level

\* line 187: for attempt in range(max_retries)
MoreAttemptsOffByOne(a, m) == a <= m

MoreAttempts(a, m) == a < m

\* capture_image, lines 187-195: top of an attempt, LED on, warm-up wait begins
LedOn ==
    /\ pc = "led_on"
    /\ MoreAttempts(attempt, max_retries)
    /\ led' = led_on(led)
    /\ image' = "unset"
    /\ pc' = "warmup"
    /\ UNCHANGED << loopVars, backlogVars, files, has_gpio, max_retries, gpio_initialized,
                    camera_open, attempt, cycleVars, ts_configured, healthVars,
                    signalVars, harness, reporterVars, uploaderVars >>

\* lines 197-201 with 79-81 / 108-110: the warm-up is over, the camera object is
\* constructed; the constructor may raise (camera busy, not detected)
CameraOpen ==
    /\ pc = "warmup"
    /\ \E opened \in BOOLEAN :
         /\ camera_open' = opened
         /\ pc' = IF opened THEN "camera" ELSE "except"
    /\ did' = did \cup { "camera" }
    /\ UNCHANGED << loopVars, backlogVars, files, has_gpio, max_retries, gpio_initialized, led,
                    attempt, image, aruco_detected, filepath, path, reports,
                    ts_sent, ts_outcome, success, bl_before, free_mb, ts_configured,
                    healthVars, signalVars, harness, reporterVars, uploaderVars >>

\* what configure/capture/decode and the check of line 204 can end in
FrameOutcomes == { "img", "raise", "None", "empty" }

\* line 198: USE_PICAMERA2 selects _capture_with_picamera2 or _capture_with_picamera
CameraBackends == { "picamera2", "picamera" }

\* whether the device is still open when the backend function is left with the
\* given outcome. picamera2 (82-105): finally: picam2.close(). picamera
\* (111-144): closed at line 121 once the frame is in the stream, and by the
\* finally clause when anything before that raised.
StillOpenWithoutFinally(backend, frame) == backend = "picamera" /\ frame = "raise"

StillOpen(backend, frame) == FALSE

\* lines 82-105 / 111-144 and 203-205: one frame; the camera is closed on every
\* path; a None or empty frame raises at line 205
CameraCapture ==
    /\ pc = "camera"
    /\ \E backend \in CameraBackends, frame \in FrameOutcomes :
         /\ camera_open' = StillOpen(backend, frame)
         /\ IF frame = "img"
            THEN image' = "img" /\ pc' = "post_capture"
            ELSE image' = "unset" /\ pc' = "except"
    /\ UNCHANGED << loopVars, backlogVars, files, has_gpio, max_retries, gpio_initialized, led,
                    attempt, cycleVars, ts_configured, healthVars, signalVars,
                    harness, reporterVars, uploaderVars >>

\* lines 207-215: the post-capture wait is over, LED off, return image
CaptureReturn ==
    /\ pc = "post_capture"
    /\ led' = led_off(led)
    /\ pc' = "captured"
    /\ UNCHANGED << loopVars, backlogVars, files, has_gpio, max_retries, gpio_initialized,
                    camera_open, attempt, image, cycleVars, ts_configured,
                    healthVars, signalVars, harness, reporterVars, uploaderVars >>

\* lines 217-224: except Exception: LED off, a pause unless this was the last
\* attempt, and on to the next pass of the loop
CaptureExceptNoLedOff ==
    /\ pc = "except"
    /\ attempt' = attempt + 1
    /\ pc' = "led_on"
    /\ UNCHANGED << loopVars, backlogVars, files, has_gpio, max_retries, gpio_initialized,
                    led, image, camera_open, cycleVars, ts_configured, healthVars,
                    signalVars, harness, reporterVars, uploaderVars >>

CaptureExcept ==
    /\ pc = "except"
    /\ led' = led_off(led)
    /\ attempt' = attempt + 1
    /\ pc' = "led_on"
    /\ UNCHANGED << loopVars, backlogVars, files, has_gpio, max_retries, gpio_initialized,
                    image, camera_open, cycleVars, ts_configured, healthVars,
                    signalVars, harness, reporterVars, uploaderVars >>

\* line 226: the loop is over without a return: return None
CaptureLoopEnd ==
    /\ pc = "led_on"
    /\ ~MoreAttempts(attempt, max_retries)
    /\ image' = "None"
    /\ pc' = "captured"
    /\ UNCHANGED << loopVars, backlogVars, files, has_gpio, max_retries, gpio_initialized,
                    led, camera_open, attempt, cycleVars, ts_configured, healthVars,
                    signalVars, harness, reporterVars, uploaderVars >>

\* ------------------------------------------------------------ process_cycle
\* lines 285-293: capture_image has returned
CaptureResultNoneContinues ==
    /\ pc = "captured"
    /\ pc' = "extract"
    /\ path' = IF image = "None" THEN "capture" ELSE path
    /\ UNCHANGED << loopVars, backlogVars, files, captureVars, aruco_detected,
                    filepath, reports, ts_sent, ts_outcome, success, did, bl_before, free_mb,
                    ts_configured, healthVars, signalVars, harness, reporterVars, uploaderVars >>

CaptureResult ==
    /\ pc = "captured"
    /\ IF image = "None"
       THEN pc' = "report" /\ path' = "capture"
       ELSE pc' = "extract" /\ path' = path
    /\ UNCHANGED << loopVars, backlogVars, files, captureVars, aruco_detected,
                    filepath, reports, ts_sent, ts_outcome, success, did, bl_before, free_mb,
                    ts_configured, healthVars, signalVars, harness, reporterVars, uploaderVars >>

\* lines 295-328 with the save left out
ExtractSkipsSave ==
    /\ pc = "extract"
    /\ did' = did \cup { "extract" }
    /\ \E in \in ServiceExtractInputs :
         LET roi == extract_roi(in)
         IN  IF roi = "raise"
             THEN aruco_detected' = FALSE /\ path' = "exception" /\ pc' = "report"
             ELSE aruco_detected' = (roi = "roi") /\ path' = path /\ pc' = "deliver"
    /\ UNCHANGED << loopVars, backlogVars, files, captureVars, filepath, reports,
                    ts_sent, ts_outcome, success, bl_before, free_mb, ts_configured, healthVars,
                    signalVars, harness, reporterVars, uploaderVars >>

\* lines 295-311: extract_roi; an exception leaving it would reach line 391
Extract ==
    /\ pc = "extract"
    /\ did' = did \cup { "extract" }
    /\ \E in \in ServiceExtractInputs :
         LET roi == extract_roi(in)
         IN  IF roi = "raise"
             THEN aruco_detected' = FALSE /\ path' = "exception" /\ pc' = "report"
             ELSE aruco_detected' = (roi = "roi") /\ path' = path /\ pc' = "save"
    /\ UNCHANGED << loopVars, backlogVars, files, captureVars, filepath, reports,
                    ts_sent, ts_outcome, success, bl_before, free_mb, ts_configured, healthVars,
                    signalVars, harness, reporterVars, uploaderVars >>

\* cv2.imwrite and filepath.stat(): the file is written, imwrite raises, or it
\* returns without a file and stat raises
SaveOutcomes == { "saved", "raise", "nofile" }

\* lines 313-328: the file is named after the cycle's timestamp
SaveIgnoringFailure ==
    /\ pc = "save"
    /\ did' = did \cup { "save" }
    /\ \E out \in SaveOutcomes :
         IF out = "saved"
         THEN /\ files' = files \cup { cycle_count }
              /\ filepath' = cycle_count
              /\ path' = path
              /\ pc' = "deliver"
         ELSE /\ UNCHANGED << files, filepath >>
              /\ path' = path
              /\ pc' = "deliver"
    /\ UNCHANGED << loopVars, backlogVars, captureVars, aruco_detected, reports,
                    ts_sent, ts_outcome, success, bl_before, free_mb, ts_configured, healthVars,
                    signalVars, harness, reporterVars, uploaderVars >>

Save ==
    /\ pc = "save"
    /\ did' = did \cup { "save" }
    /\ \E out \in SaveOutcomes :
         IF out = "saved"
         THEN /\ files' = files \cup { cycle_count }
              /\ filepath' = cycle_count
              /\ path' = path
              /\ pc' = "deliver"
         ELSE /\ UNCHANGED << files, filepath >>
              /\ path' = "exception"
              /\ pc' = "report"
    /\ UNCHANGED << loopVars, backlogVars, captureVars, aruco_detected, reports,
                    ts_sent, ts_outcome, success, bl_before, free_mb, ts_configured, healthVars,
                    signalVars, harness, reporterVars, uploaderVars >>

\* lines 330-339: upload_with_verification returns
Deliver ==
    /\ pc = "deliver"
    /\ did' = did \cup { "deliver" }
    /\ \E drive_success \in DeliverResults(is_configured) :
         path' = IF drive_success THEN "ok" ELSE "upload_failed"
    /\ pc' = "report"
    /\ UNCHANGED << loopVars, backlogVars, files, captureVars, aruco_detected,
                    filepath, reports, ts_sent, ts_outcome, success, bl_before, free_mb,
                    ts_configured, healthVars, signalVars, harness, reporterVars, uploaderVars >>

\* _send_thingspeak_status, lines 215-224, as called at 280, 290, 346, 354, 371
\* and 397; whatever send_status returns or raises is dropped
send_thingspeak_status(sent, code) ==
    IF ts_configured THEN Append(sent, code) ELSE sent

\* how a send_status call can end: True, False after its retries (rejected or
\* timed out), or an exception
TelemetryOutcomes == { "accepted", "rejected", "timeout", "raise" }

\* lines 221-224: the value send_status returns is not used and an exception
\* is logged; the branch of process_cycle that reported goes on as it was
TelemetryEffectRaising(outcome, p) == IF outcome = "raise" THEN "exception" ELSE p

TelemetryEffect(outcome, p) == p

ReportTwice ==
    /\ pc = "report"
    /\ reports' = reports \o << StatusFor(path, aruco_detected), StatusFor(path, aruco_detected) >>
    /\ ts_sent' = send_thingspeak_status(ts_sent, StatusFor(path, aruco_detected))
    /\ \E outcome \in (IF ts_configured THEN TelemetryOutcomes ELSE { "none" }) :
         /\ ts_outcome' = outcome
         /\ path' = TelemetryEffect(outcome, path)
    /\ IF path' = "upload_failed"
       THEN pc' = "enqueue" /\ success' = success
       ELSE pc' = "returned" /\ success' = IF path' = "ok" THEN "True" ELSE "False"
    /\ UNCHANGED << loopVars, backlogVars, files, captureVars, aruco_detected,
                    filepath, did, bl_before, free_mb, ts_configured,
                    healthVars, signalVars, harness, reporterVars, uploaderVars >>

Report ==
    /\ pc = "report"
    /\ reports' = Append(reports, StatusFor(path, aruco_detected))
    /\ ts_sent' = send_thingspeak_status(ts_sent, StatusFor(path, aruco_detected))
    /\ \E outcome \in (IF ts_configured THEN TelemetryOutcomes ELSE { "none" }) :
         /\ ts_outcome' = outcome
         /\ path' = TelemetryEffect(outcome, path)
    /\ IF path' = "upload_failed"
       THEN pc' = "enqueue" /\ success' = success
       ELSE pc' = "returned" /\ success' = IF path' = "ok" THEN "True" ELSE "False"
    /\ UNCHANGED << loopVars, backlogVars, files, captureVars, aruco_detected,
                    filepath, did, bl_before, free_mb, ts_configured,
                    healthVars, signalVars, harness, reporterVars, uploaderVars >>

\* what the logging calls of one step wrote, each record by its level and the
\* file paths its message names; followed where the backlog is taken alone
LogRecords(h, rs) == IF h.op = "backlog" THEN [ h EXCEPT !.records = rs ] ELSE h

\* lines 367 and 370: the failed upload is reported without the path
UploadFailedRecords ==
    { [ level |-> "error", names |-> {} ], [ level |-> "info", names |-> {} ] }

\* line 382: "Queued for retry (N in backlog)", the size and no path
QueuedRecords == { [ level |-> "info", names |-> {} ] }

\* lines 376-389: queue the failed file for retry, return False
Enqueue ==
    /\ pc = "enqueue"
    /\ upload_backlog' = DequeAppend(upload_backlog, BacklogEntry(filepath, aruco_detected))
    /\ success' = "False"
    /\ pc' = "returned"
    /\ harness' = LogRecords(harness, QueuedRecords)
    /\ UNCHANGED << loopVars, retried, item, files, captureVars, aruco_detected,
                    filepath, path, reports, ts_sent, ts_outcome, did, bl_before, free_mb,
                    ts_configured, healthVars, signalVars, reporterVars, uploaderVars >>

\* run(), lines 430-432
CountSuccessEveryCycle ==
    /\ pc = "returned"
    /\ success_count' = success_count + 1
    /\ pc' = "cleanup"
    /\ UNCHANGED << cycle_count, backlogVars, files, captureVars, cycleVars,
                    ts_configured, healthVars, signalVars, harness, reporterVars, uploaderVars >>

CountSuccess ==
    /\ pc = "returned"
    /\ success_count' = IF success = "True" THEN success_count + 1 ELSE success_count
    /\ pc' = "cleanup"
    /\ UNCHANGED << cycle_count, backlogVars, files, captureVars, cycleVars,
                    ts_configured, healthVars, signalVars, harness, reporterVars, uploaderVars >>

\* run(), line 435: _cleanup_old_images(keep_count=50)
Cleanup ==
    /\ pc = "cleanup"
    /\ \E failAt \in 0..Cardinality(files) :
         files' = CleanupOldImages(files, upload_backlog, KEEP_COUNT, failAt)
    /\ pc' = "write_health"
    /\ UNCHANGED << loopVars, backlogVars, captureVars, cycleVars, ts_configured,
                    healthVars, signalVars, harness, reporterVars, uploaderVars >>

\* _write_health, lines 200-213: the whole write is inside try / except
\* Exception: pass, so the caller goes on to its next statement whatever the
\* outcome of the write
AfterWriteHealthRaising(outcome, next) == IF outcome = "written" THEN next ELSE "exited"

AfterWriteHealth(outcome, next) == next

\* run(), lines 437-441
CycleHealth ==
    /\ pc = "write_health"
    /\ \E w \in WriteOutcomes :
         /\ health' = WriteHealth(health,
                         HealthRecord("running",
                             Msg("cycle", cycle_count, IF success = "True" THEN "success" ELSE "failed"),
                             cycle_count, success_count, upload_backlog), w)
         /\ health_tried' = [ status |-> "running", outcome |-> w ]
         /\ pc' = AfterWriteHealth(w, "sleep")
    /\ UNCHANGED << loopVars, backlogVars, files, captureVars, cycleVars,
                    ts_configured, signalVars, harness, reporterVars, uploaderVars >>

\* run(), lines 443-445: time.sleep(self.capture_interval) returns; meanwhile
\* a stored image may have disappeared (removed by hand or by another tool)
Sleep ==
    /\ pc = "sleep"
    /\ \E gone \in { {} } \cup { { f } : f \in files } : files' = files \ gone
    /\ aruco_detected' = FALSE /\ filepath' = 0 /\ path' = "none" /\ reports' = << >>
    /\ ts_sent' = << >> /\ ts_outcome' = "none" /\ success' = "unset" /\ did' = {} /\ bl_before' = << >>
    /\ free_mb' = -1
    /\ image' = "unset" /\ attempt' = 0
    /\ now' = AfterSleep(harness, now, capture_interval)
    /\ pc' = "loop_top"
    /\ UNCHANGED << loopVars, backlogVars, has_gpio, max_retries, gpio_initialized, led,
                    camera_open, ts_configured, healthVars, signalVars, harness,
                    last_update_time, ts_pc, ts_attempt, ts_calls, req_prev, req_last,
                    uploaderVars >>

\* cleanup_gpio, lines 229-239: GPIO.cleanup() releases the pin
cleanup_gpio_skipped(level) == level

cleanup_gpio_level(level) == IF has_gpio THEN "LOW" ELSE level

\* SIGTERM/SIGINT at any point: _handle_shutdown, lines 166-172; sys.exit(0)
\* raises SystemExit, which no except Exception clause catches; the finally
\* clauses of capture.py close the camera and the locals of the interrupted
\* calls are gone; the backlog is shown as the handler saw it
HandleShutdown ==
    /\ pc # "exited"
    /\ shutdown_at' = pc
    /\ led_at_signal' = led
    /\ led' = cleanup_gpio_level(led)
    /\ gpio_initialized' = IF has_gpio THEN FALSE ELSE gpio_initialized
    /\ \E w \in WriteOutcomes :
         /\ health' = WriteHealth(health,
                         HealthRecord("stopped", Msg("shutdown", 0, "none"),
                             cycle_count, success_count, upload_backlog), w)
         /\ health_tried' = [ status |-> "stopped", outcome |-> w ]
    /\ camera_open' = FALSE
    /\ aruco_detected' = FALSE /\ filepath' = 0 /\ path' = "none" /\ reports' = << >>
    /\ ts_sent' = << >> /\ ts_outcome' = "none" /\ success' = "unset" /\ did' = {} /\ bl_before' = << >>
    /\ free_mb' = -1
    /\ image' = "unset" /\ attempt' = 0
    /\ pc' = "exited"
    /\ UNCHANGED << loopVars, backlogVars, files, has_gpio, max_retries, ts_configured, harness,
                    reporterVars, uploaderVars >>

Next ==
    \/ RunStart \/ LoopTop \/ RetryPop \/ RetryUpload \/ RetryRequeue
    \/ DiskCheck \/ InitGpio \/ LedOn \/ CameraOpen \/ CameraCapture
    \/ CaptureReturn \/ CaptureExcept \/ CaptureLoopEnd \/ CaptureResult \/ Extract
    \/ Save
    \/ Deliver \/ Report \/ Enqueue \/ CountSuccess \/ Cleanup \/ CycleHealth
    \/ Sleep \/ HandleShutdown

Spec == Init /\ [][Next]_vars

\* ------------------------------------------------- component specifications
IdleService ==
    /\ success_count = 0 /\ retried = << >> /\ item = << >>
    /\ has_gpio = TRUE /\ gpio_initialized = FALSE /\ led = "LOW"
    /\ camera_open = FALSE /\ attempt = 0 /\ image = "unset"
    /\ max_retries = CAPTURE_MAX_RETRIES
    /\ ts_configured = TRUE
    /\ health = NoHealth("absent")
    /\ health_tried = [ status |-> "none", outcome |-> "none" ]
    /\ shutdown_at = "none" /\ led_at_signal = "none"
    /\ IdleUploader

serviceVars == << success_count, retried, item, captureVars, ts_configured,
                  healthVars, signalVars >>

\* the backlog entries for the files of P, oldest first
RECURSIVE EntriesOf(_)
EntriesOf(P) ==
    IF P = {} THEN << >>
    ELSE LET f == CHOOSE x \in P : \A y \in P : x <= y
         IN  << BacklogEntry(f, FALSE) >> \o EntriesOf(P \ { f })

\* --- _cleanup_old_images on a directory of up to MaxFiles images, named by
\* --- their modification order, with any backlog and any keep_count
InitPrune ==
    /\ pc = "prune_call"
    /\ cycle_count = 0
    /\ files \in SUBSET (1..MaxFiles)
    /\ \E P \in SUBSET (1..MaxFiles) : upload_backlog = EntriesOf(P)
    /\ \E keep \in 0..MaxKeep :
         harness = [ op |-> "prune", keep |-> keep, before |-> files, failed |-> FALSE ]
    /\ IdleService /\ FreshCycle /\ IdleReporter

\* _cleanup_old_images(keep_count), lines 459-473
PruneCall ==
    /\ pc = "prune_call"
    /\ \E failAt \in 0..Cardinality(files) :
         /\ files' = CleanupOldImages(files, upload_backlog, harness.keep, failAt)
         /\ harness' = [ harness EXCEPT !.failed =
                           files' # CleanupOldImages(files, upload_backlog, harness.keep,
                                                     Cardinality(files)) ]
    /\ pc' = "pruned"
    /\ UNCHANGED << cycle_count, upload_backlog, serviceVars, cycleVars, reporterVars, uploaderVars >>

NextPrune == PruneCall

SpecPrune == InitPrune /\ [][NextPrune]_vars

\* _retry_backlog's messages: the count at 231, a warning for each missing file
\* (239), an info for each delivered one (245), an error for each dropped (255)
RetryBacklogRecords(q, existing, delivered) ==
    { [ level |-> "info", names |-> {} ] }
    \cup { [ level |-> "warning", names |-> { e.filepath } ] :
             e \in { x \in SeqRange(q) : x.filepath \notin existing } }
    \cup { [ level |-> "info", names |-> { e.filepath } ] :
             e \in { x \in SeqRange(q) : x.filepath \in existing \cap delivered } }
    \cup { [ level |-> "error", names |-> { e.filepath } ] :
             e \in { x \in SeqRange(q) : /\ x.filepath \in existing \ delivered
                                        /\ ~KeepRetrying(CountRetry(x).retries) } }

\* --- the backlog under any order of failed deliveries and drains
\* _retry_backlog, lines 226-255, in one piece: the items whose file exists and
\* whose upload fails are re-queued, in order
RetryBacklog(q, existing, delivered) ==
    Requeue(<< >>, SeqFilter(q, existing \ delivered))

InitBacklog ==
    /\ pc = "returned"
    /\ cycle_count = 0
    /\ files = {}
    /\ upload_backlog = << >>
    /\ harness = [ op |-> "backlog", records |-> {} ]
    /\ IdleService /\ FreshCycle /\ IdleReporter

\* a cycle whose upload failed, up to line 374: the file is saved, status 2 sent
FailedDelivery ==
    /\ pc = "returned"
    /\ cycle_count < MaxEnqueue
    /\ cycle_count' = cycle_count + 1
    /\ files' = files \cup { cycle_count + 1 }
    /\ filepath' = cycle_count + 1
    /\ aruco_detected' = FALSE
    /\ path' = "upload_failed"
    /\ bl_before' = upload_backlog
    /\ pc' = "enqueue"
    /\ harness' = LogRecords(harness, UploadFailedRecords)
    /\ UNCHANGED << upload_backlog, serviceVars, reports, ts_sent, ts_outcome, success, did,
                    free_mb, reporterVars, uploaderVars >>

\* _retry_backlog with the uploads of the files up to cut succeeding: none of
\* them, the oldest one, or all of them
Drain ==
    /\ pc = "returned"
    /\ upload_backlog # << >>
    /\ \E cut \in { 0, Head(upload_backlog).filepath, cycle_count } :
         /\ upload_backlog' = RetryBacklog(upload_backlog, files, { f \in files : f <= cut })
         /\ harness' = LogRecords(harness, RetryBacklogRecords(upload_backlog, files,
                                                              { f \in files : f <= cut }))
    /\ UNCHANGED << pc, cycle_count, files, serviceVars, cycleVars, reporterVars, uploaderVars >>

NextBacklog == FailedDelivery \/ Enqueue \/ Drain

SpecBacklog == InitBacklog /\ [][NextBacklog]_vars

\* --- the backlog across a stop and a new start of the process (the unit
\* --- restarts the service); cycle_count numbers the saved images here
InitRestart ==
    /\ pc = "returned"
    /\ cycle_count = 0
    /\ files = {}
    /\ upload_backlog = << >>
    /\ harness = [ op |-> "restart", starts |-> 1, pending |-> << >> ]
    /\ IdleService /\ FreshCycle /\ IdleReporter

ServiceFailedDelivery == cycle_count < MaxRestartCycles /\ FailedDelivery

\* a new process: ImageCaptureService.__init__, lines 65-164; the images and
\* the health file are on disk, everything else is built anew; pending is the
\* backlog the stopped process held
Restart ==
    /\ pc = "exited"
    /\ harness.starts < MaxStarts
    /\ harness' = [ harness EXCEPT !.starts = @ + 1, !.pending = upload_backlog ]
    /\ upload_backlog' = << >> /\ retried' = << >> /\ item' = << >>
    /\ success_count' = 0
    /\ gpio_initialized' = FALSE /\ camera_open' = FALSE
    /\ attempt' = 0 /\ image' = "unset"
    /\ health_tried' = [ status |-> "none", outcome |-> "none" ]
    /\ shutdown_at' = "none" /\ led_at_signal' = "none"
    /\ pc' = "restarted"
    /\ UNCHANGED << cycle_count, files, has_gpio, max_retries, led, ts_configured,
                    health, cycleVars, reporterVars, uploaderVars >>

\* run(), lines 405-411, in the new process
RunAfterRestart ==
    /\ pc = "restarted"
    /\ success_count' = 0
    /\ \E w \in WriteOutcomes :
         /\ health' = WriteHealth(health,
                         HealthRecord("running", Msg("started", 0, "none"), 0, 0, upload_backlog), w)
         /\ health_tried' = [ status |-> "running", outcome |-> w ]
    /\ pc' = "returned"
    /\ UNCHANGED << cycle_count, backlogVars, files, captureVars, cycleVars,
                    ts_configured, signalVars, harness, reporterVars, uploaderVars >>

NextRestart ==
    \/ ServiceFailedDelivery \/ Enqueue \/ Drain \/ HandleShutdown \/ Restart
    \/ RunAfterRestart

SpecRestart == InitRestart /\ [][NextRestart]_vars

\* --- the service on a host where rclone or its remote is not set up:
\* --- RcloneUploader() does not raise, is_configured is False (line 40)
InitUnconfigured ==
    /\ pc = "run_start"
    /\ cycle_count = 0
    /\ files = {}
    /\ upload_backlog = << >>
    /\ success_count = 0 /\ retried = << >> /\ item = << >>
    /\ has_gpio \in BOOLEAN /\ gpio_initialized = FALSE /\ led = "LOW"
    /\ camera_open = FALSE /\ attempt = 0 /\ image = "unset"
    /\ max_retries = CAPTURE_MAX_RETRIES
    /\ ts_configured \in BOOLEAN
    /\ health = NoHealth("absent")
    /\ health_tried = [ status |-> "none", outcome |-> "none" ]
    /\ shutdown_at = "none" /\ led_at_signal = "none"
    /\ harness = [ op |-> "service" ]
    /\ FreshCycle /\ IdleReporter
    /\ is_configured = FALSE /\ up_pc = "idle" /\ up_attempt = 0
    /\ up_log = << >> /\ up_result = "none"

SpecUnconfigured == InitUnconfigured /\ [][Next]_vars

\* --- the ways out of the process, with _handle_shutdown taken statement by
\* --- statement: a Python signal handler runs in the main thread between two
\* --- bytecodes, also between two bytecodes of a handler that is already running
InitShutdown ==
    /\ pc = "starting"
    /\ cycle_count = 0
    /\ files = {}
    /\ upload_backlog = << >>
    /\ harness = [ op |-> "shutdown", signals |-> 0, cleanups |-> 0, writes |-> 0,
                   attempts |-> 0, cause |-> "none" ]
    /\ IdleService /\ FreshCycle /\ IdleReporter

shutdownFrame == << cycle_count, files, upload_backlog, success_count, retried, item,
                   has_gpio, camera_open, attempt, max_retries, image, ts_configured,
                   signalVars, cycleVars, reporterVars, uploaderVars >>

\* __main__, lines 475-483: something in __init__ outside its own try blocks
\* raises (mkdir of the output directory, line 149): cleanup_gpio(), sys.exit(1)
StartFails ==
    /\ pc = "starting"
    /\ led' = cleanup_gpio_level(led)
    /\ gpio_initialized' = FALSE
    /\ harness' = [ harness EXCEPT !.cleanups = @ + 1, !.cause = "fatal" ]
    /\ pc' = "exited"
    /\ UNCHANGED << shutdownFrame, healthVars >>

\* __init__ returns and run() starts: lines 405-411
StartRuns ==
    /\ pc = "starting"
    /\ \E w \in WriteOutcomes :
         /\ health' = WriteHealth(health,
                         HealthRecord("running", Msg("started", 0, "none"), 0, 0, upload_backlog), w)
         /\ health_tried' = [ status |-> "running", outcome |-> w ]
    /\ pc' = "running"
    /\ UNCHANGED << shutdownFrame, led, gpio_initialized, harness >>

\* the loop goes on: one capture attempt turns the LED on, its end turns it off
AttemptStep ==
    /\ pc = "running"
    /\ harness.attempts < MaxAttempts
    /\ IF led = "LOW"
       THEN led' = led_on(led) /\ gpio_initialized' = TRUE /\ harness' = harness
       ELSE /\ led' = led_off(led) /\ gpio_initialized' = gpio_initialized
            /\ harness' = [ harness EXCEPT !.attempts = @ + 1 ]
    /\ UNCHANGED << pc, shutdownFrame, healthVars >>

\* SIGTERM or SIGINT is delivered (handlers registered at lines 73-74); the
\* handler starts from its first statement, on top of whatever was running
SignalArrives ==
    /\ pc \in { "running", "h_cleanup", "h_write", "h_exit" }
    /\ harness.signals < MaxSignals
    /\ harness' = [ harness EXCEPT !.signals = @ + 1, !.cause = "signal" ]
    /\ pc' = "h_cleanup"
    /\ UNCHANGED << shutdownFrame, led, gpio_initialized, healthVars >>

\* _handle_shutdown, line 170: cleanup_gpio()
HandlerCleanup ==
    /\ pc = "h_cleanup"
    /\ led' = cleanup_gpio_level(led)
    /\ gpio_initialized' = FALSE
    /\ harness' = [ harness EXCEPT !.cleanups = @ + 1 ]
    /\ pc' = "h_write"
    /\ UNCHANGED << shutdownFrame, healthVars >>

\* _handle_shutdown, line 171: self._write_health("stopped", ...)
HandlerWriteHealth ==
    /\ pc = "h_write"
    /\ \E w \in WriteOutcomes :
         /\ health' = WriteHealth(health,
                         HealthRecord("stopped", Msg("shutdown", 0, "none"),
                             cycle_count, success_count, upload_backlog), w)
         /\ health_tried' = [ status |-> "stopped", outcome |-> w ]
    /\ harness' = [ harness EXCEPT !.writes = @ + 1 ]
    /\ pc' = "h_exit"
    /\ UNCHANGED << shutdownFrame, led, gpio_initialized >>

\* _handle_shutdown, line 172: sys.exit(0); SystemExit unwinds every frame,
\* the frames of interrupted handlers included
HandlerExit ==
    /\ pc = "h_exit"
    /\ pc' = "exited"
    /\ UNCHANGED << shutdownFrame, led, gpio_initialized, healthVars, harness >>

NextShutdown ==
    \/ StartFails \/ StartRuns \/ AttemptStep \/ SignalArrives \/ HandlerCleanup
    \/ HandlerWriteHealth \/ HandlerExit

SpecShutdown == InitShutdown /\ [][NextShutdown]_vars

\* --- the times at which the cycles begin
\* seconds from the top of the loop to the call of time.sleep at line 445
WorkDurations == { 10, 299, 300, 400 }

InitSchedule ==
    /\ pc = "loop_top"
    /\ cycle_count = 0
    /\ files = {}
    /\ upload_backlog = << >>
    /\ harness = [ op |-> "schedule", starts |-> << >>, work |-> << >> ]
    /\ IdleService /\ FreshCycle /\ IdleReporter

\* run(), lines 427-441: drain, process_cycle, prune and health write take d seconds
ScheduleWork ==
    /\ pc = "process_cycle"
    /\ \E d \in WorkDurations :
         /\ now' = now + d
         /\ harness' = [ harness EXCEPT !.work = Append(@, d) ]
    /\ success' = "False"
    /\ pc' = "sleep"
    /\ UNCHANGED << loopVars, backlogVars, files, captureVars, aruco_detected, filepath,
                    path, reports, ts_sent, ts_outcome, did, bl_before, free_mb,
                    ts_configured, healthVars, signalVars, last_update_time, ts_pc,
                    ts_attempt, ts_calls, req_prev, req_last, uploaderVars >>

NextSchedule == LoopTop \/ ScheduleWork \/ Sleep

SpecSchedule == InitSchedule /\ [][NextSchedule]_vars

\* --- the backlog drain at the top of every cycle, over several cycles
InitDrain ==
    /\ pc = "loop_top"
    /\ cycle_count = 0
    /\ files = {}
    /\ upload_backlog = << >>
    /\ harness = [ op |-> "drain", start |-> << >>, log |-> << >> ]
    /\ IdleService /\ FreshCycle /\ IdleReporter

\* process_cycle after the disk check, lines 283-403, by its effect on the
\* stored files and the backlog: the image of cycle n is file n; it is delivered,
\* or saved and left for Enqueue, or the cycle fails before anything is saved
DrainCycleBody ==
    /\ pc \in { "capture_image", "report" }
    /\ \E outcome \in (IF pc = "report" THEN { "failed" }
                       ELSE { "delivered", "queued", "failed" }) :
         CASE outcome = "queued" ->
                /\ files' = files \cup { cycle_count }
                /\ filepath' = cycle_count /\ path' = "upload_failed"
                /\ success' = success /\ pc' = "enqueue"
           [] outcome = "delivered" ->
                /\ files' = files \cup { cycle_count }
                /\ filepath' = cycle_count /\ path' = "ok"
                /\ success' = "True" /\ pc' = "returned"
           [] OTHER ->
                /\ files' = files
                /\ filepath' = filepath /\ path' = (IF pc = "report" THEN path ELSE "capture")
                /\ success' = "False" /\ pc' = "returned"
    /\ UNCHANGED << harness, loopVars, backlogVars, captureVars, aruco_detected, reports, ts_sent,
                    ts_outcome, did, bl_before, free_mb, ts_configured, healthVars,
                    signalVars, reporterVars, uploaderVars >>

NextDrain ==
    \/ LoopTop \/ RetryPop \/ RetryUpload \/ RetryRequeue \/ DiskCheck
    \/ DrainCycleBody \/ Enqueue \/ CountSuccess \/ Cleanup \/ CycleHealth \/ Sleep

SpecDrain == InitDrain /\ [][NextDrain]_vars

\* the same loop, followed by the deliver calls made for each cycle's file
InitDeliveries ==
    /\ pc = "loop_top"
    /\ cycle_count = 0
    /\ files = {}
    /\ upload_backlog = << >>
    /\ harness = [ op |-> "deliveries", calls |-> << >> ]
    /\ IdleService /\ FreshCycle /\ IdleReporter

\* process_cycle as a whole, lines 257-403, the disk check included, by the same
\* three effects
ProcessCycle ==
    /\ pc = "process_cycle"
    /\ \E outcome \in { "delivered", "queued", "failed" } :
         CASE outcome = "queued" ->
                /\ files' = files \cup { cycle_count }
                /\ filepath' = cycle_count /\ path' = "upload_failed"
                /\ success' = success /\ pc' = "enqueue"
                /\ harness' = DeliverCall(harness, cycle_count)
           [] outcome = "delivered" ->
                /\ files' = files \cup { cycle_count }
                /\ filepath' = cycle_count /\ path' = "ok"
                /\ success' = "True" /\ pc' = "returned"
                /\ harness' = DeliverCall(harness, cycle_count)
           [] OTHER ->
                /\ files' = files
                /\ filepath' = filepath /\ path' = "capture"
                /\ success' = "False" /\ pc' = "returned"
                /\ harness' = harness
    /\ UNCHANGED << loopVars, backlogVars, captureVars, aruco_detected, reports, ts_sent,
                    ts_outcome, did, bl_before, free_mb, ts_configured, healthVars,
                    signalVars, reporterVars, uploaderVars >>

NextDeliveries ==
    \/ LoopTop \/ RetryPop \/ RetryUpload \/ RetryRequeue
    \/ ProcessCycle \/ Enqueue \/ CountSuccess \/ Cleanup \/ CycleHealth \/ Sleep

SpecDeliveries == InitDeliveries /\ [][NextDeliveries]_vars

\* --- the service loop with an exception that leaves _retry_backlog
\* run(), lines 452-456: an exception raised inside the drain (none of its own
\* statements raises one; MemoryError on a small board can) reaches the except
\* Exception clause of the loop: the health file gets status "error"; the
\* popped item and the list of failed items are gone with the call
DrainRaises ==
    /\ pc \in { "retry_loop", "retry_upload" }
    /\ retried' = << >> /\ item' = << >>
    /\ \E w \in WriteOutcomes :
         /\ health' = WriteHealth(health,
                         HealthRecord("error", Msg("error", cycle_count, "none"),
                             cycle_count, success_count, upload_backlog), w)
         /\ health_tried' = [ status |-> "error", outcome |-> w ]
    /\ pc' = "error_wait"
    /\ UNCHANGED << loopVars, upload_backlog, files, captureVars, cycleVars,
                    ts_configured, signalVars, harness, reporterVars, uploaderVars >>

\* run(), line 457: time.sleep(60), then the next pass of the loop
ErrorWaitEndsLoop ==
    /\ pc = "error_wait"
    /\ pc' = "exited"
    /\ UNCHANGED << loopVars, backlogVars, files, captureVars, cycleVars, ts_configured,
                    healthVars, signalVars, harness, reporterVars, uploaderVars >>

ErrorWait ==
    /\ pc = "error_wait"
    /\ now' = AfterSleep(harness, now, ERROR_RETRY_SECONDS)
    /\ pc' = "loop_top"
    /\ UNCHANGED << loopVars, backlogVars, files, captureVars, cycleVars, ts_configured,
                    healthVars, signalVars, harness, last_update_time, ts_pc, ts_attempt,
                    ts_calls, req_prev, req_last, uploaderVars >>

NextLoopError == NextDrain \/ DrainRaises \/ ErrorWait \/ HandleShutdown

SpecLoopError == InitDrain /\ [][NextLoopError]_vars

\* --- extract_roi on every input of ExtractInputs
InitExtract ==
    /\ pc = "extract_call"
    /\ cycle_count = 0
    /\ files = {}
    /\ upload_backlog = << >>
    /\ \E in \in ExtractInputs : harness = [ op |-> "extract", in |-> in, result |-> "pending" ]
    /\ IdleService /\ FreshCycle /\ IdleReporter

ExtractCall ==
    /\ pc = "extract_call"
    /\ harness' = [ harness EXCEPT !.result = extract_roi(harness.in) ]
    /\ pc' = "extracted"
    /\ UNCHANGED << cycle_count, files, upload_backlog, serviceVars, cycleVars, reporterVars, uploaderVars >>

NextExtract == ExtractCall

SpecExtract == InitExtract /\ [][NextExtract]_vars

\* --- capture_image(max_retries) for every max_retries up to MaxAttempts, on a
\* --- pin that is or is not set up yet; every step of the call completes
InitCapture ==
    /\ pc = "capture_image"
    /\ cycle_count = 0 /\ success_count = 0
    /\ files = {}
    /\ upload_backlog = << >> /\ retried = << >> /\ item = << >>
    /\ max_retries \in 0..MaxAttempts
    /\ has_gpio \in BOOLEAN
    /\ gpio_initialized \in (IF has_gpio THEN BOOLEAN ELSE { FALSE })
    /\ led \in (IF has_gpio /\ ~gpio_initialized THEN { "LOW", "HIGH" } ELSE { "LOW" })
    /\ camera_open = FALSE /\ attempt = 0 /\ image = "unset"
    /\ ts_configured = TRUE
    /\ health = NoHealth("absent")
    /\ health_tried = [ status |-> "none", outcome |-> "none" ]
    /\ shutdown_at = "none" /\ led_at_signal = "none"
    /\ harness = [ op |-> "capture" ]
    /\ FreshCycle /\ IdleReporter /\ IdleUploader

NextCapture ==
    \/ InitGpio \/ LedOn \/ CameraOpen \/ CameraCapture \/ CaptureReturn
    \/ CaptureExcept \/ CaptureLoopEnd

SpecCapture == InitCapture /\ [][NextCapture]_vars /\ WF_vars(NextCapture)

\* --- RcloneUploader: _validate_setup at construction, then
\* --- upload_with_verification calls on any folder id and file
\* what the three subprocesses of _validate_setup do: the exit code of
\* 'which rclone' (or 'which' is itself missing), 'rclone version' and
\* 'rclone listremotes' (exit code, or a timeout or a missing binary), and
\* whether the remote's name is among the remotes listed
SetupEnvs ==
    [ which : { "0", "1", "FileNotFoundError" }, version : { "0", "1", "raise" },
      listremotes : { "0", "1", "raise" }, listed : BOOLEAN ]

\* _validate_setup, lines 42-98
validate_setup_ignoring_remotes(env) ==
    IF env.which # "0" THEN FALSE
    ELSE IF env.version = "raise" THEN FALSE
    ELSE IF env.listremotes # "0" THEN FALSE
    ELSE TRUE

validate_setup(env) ==
    IF env.which # "0" THEN FALSE
    ELSE IF env.version = "raise" THEN FALSE
    ELSE IF env.listremotes # "0" THEN FALSE
    ELSE env.listed

\* the folder id main_service passes: an id, or '', 'nan' or None
FolderIds == { "folder", "", "nan", "None" }

\* line 115: not folder_id or folder_id == 'nan' or folder_id == ''
FolderMissing(folder_id) == folder_id \in { "", "nan", "None" }

\* how 'rclone copy' ends in _upload_single (lines 196-221) and 'rclone lsf' in
\* _verify_upload (lines 240-266); "raise" is an exception in the try block of
\* upload_with_verification outside these two calls
CopyOutcomes == { "0", "nonzero", "timeout", "exception" }

VerifyOutcomes == { "listed", "missing", "nonzero", "timeout", "exception", "raise" }

UploadEvent(ev, ok, secs) == [ ev |-> ev, ok |-> ok, secs |-> secs ]

\* the rclone process when subprocess.run (line 199) is left: run() kills the
\* child and waits for it before it re-raises TimeoutExpired; an exception
\* before the child exists (rclone not found) leaves no child
ChildAfterRunWithoutKill(out) ==
    CASE out = "exception" -> "none" [] out = "timeout" -> "running" [] OTHER -> "reaped"

ChildAfterRun(out) == IF out = "exception" THEN "none" ELSE "reaped"

\* _upload_single, lines 208-221: True on exit code 0 only
CopyEvent(out) ==
    [ ev |-> "copy", ok |-> (out = "0"), secs |-> 0, out |-> out, child |-> ChildAfterRun(out) ]

\* _verify_upload, lines 249-266: True when the listing ran and holds the name
VerifyOkWhenListingRan(out) == out \in { "listed", "missing" }

VerifyOk(out) == out = "listed"

ListingEvent(out) ==
    [ ev |-> "lsf", ok |-> (out = "listed"), secs |-> 0, out |-> out ]

\* line 126: for attempt in range(MAX_RETRIES)
UploadRangeOneMore(a) == a < UP_MAX_RETRIES + 1

UploadRange(a) == a < UP_MAX_RETRIES

\* lines 132, 149, 159: attempt < MAX_RETRIES - 1
NotLastUpload(a) == a < UP_MAX_RETRIES - 1

\* time.sleep(RETRY_DELAYS[attempt]) when this was not the last attempt
UploadPauseAfterEveryAttempt(log, a) ==
    Append(log, UploadEvent("sleep", TRUE, RETRY_DELAYS[IF a + 1 <= Len(RETRY_DELAYS) THEN a + 1 ELSE 1]))

UploadPause(log, a) ==
    IF NotLastUpload(a) THEN Append(log, UploadEvent("sleep", TRUE, RETRY_DELAYS[a + 1])) ELSE log

InitUpload ==
    /\ pc = "uploader"
    /\ cycle_count = 0
    /\ files = {}
    /\ upload_backlog = << >>
    /\ \E env \in SetupEnvs :
         harness = [ op |-> "upload", env |-> env, folder_id |-> "folder", exists |-> TRUE,
                     calls |-> 0, before |-> FALSE ]
    /\ success_count = 0 /\ retried = << >> /\ item = << >>
    /\ has_gpio = TRUE /\ gpio_initialized = FALSE /\ led = "LOW"
    /\ camera_open = FALSE /\ attempt = 0 /\ image = "unset"
    /\ max_retries = CAPTURE_MAX_RETRIES
    /\ ts_configured = TRUE
    /\ health = NoHealth("absent")
    /\ health_tried = [ status |-> "none", outcome |-> "none" ]
    /\ shutdown_at = "none" /\ led_at_signal = "none"
    /\ FreshCycle /\ IdleReporter
    /\ is_configured = FALSE /\ up_pc = "new" /\ up_attempt = 0
    /\ up_log = << >> /\ up_result = "none"

uploadFrame == << pc, cycle_count, files, upload_backlog, success_count, retried, item,
                  captureVars, ts_configured, healthVars, signalVars, cycleVars,
                  reporterVars >>

\* RcloneUploader.__init__, lines 30-40
UploaderInit ==
    /\ up_pc = "new"
    /\ is_configured' = validate_setup(harness.env)
    /\ up_pc' = "idle"
    /\ UNCHANGED << uploadFrame, harness, up_attempt, up_log, up_result >>

\* upload_with_verification, lines 111-123: the three checks before the loop
UploadCall ==
    /\ up_pc \in { "idle", "returned" }
    /\ harness.calls < MaxUploadCalls
    /\ \E folder_id \in FolderIds, exists \in BOOLEAN :
         /\ harness' = [ harness EXCEPT !.folder_id = folder_id, !.exists = exists,
                                        !.calls = @ + 1, !.before = is_configured ]
         /\ IF ~is_configured \/ FolderMissing(folder_id) \/ ~exists
            THEN up_result' = "False" /\ up_pc' = "returned"
            ELSE up_result' = "none" /\ up_pc' = "upload_single"
    /\ up_attempt' = 0
    /\ up_log' = << >>
    /\ UNCHANGED << uploadFrame, is_configured >>

\* lines 126-139 with _upload_single: one transfer; a failed one is followed
\* by a pause and the next pass, or by return False when it was the last
UploadSingle ==
    /\ up_pc = "upload_single"
    /\ \E out \in CopyOutcomes :
         LET log == Append(up_log, CopyEvent(out))
         IN  IF out = "0"
             THEN /\ up_log' = log
                  /\ up_pc' = "verify"
                  /\ UNCHANGED << up_attempt, up_result >>
             ELSE IF NotLastUpload(up_attempt)
             THEN /\ up_log' = UploadPause(log, up_attempt)
                  /\ up_attempt' = up_attempt + 1
                  /\ up_pc' = "upload_single"
                  /\ up_result' = up_result
             ELSE /\ up_log' = log
                  /\ up_attempt' = up_attempt
                  /\ up_pc' = "returned"
                  /\ up_result' = "False"
    /\ UNCHANGED << uploadFrame, harness, is_configured >>

\* lines 141-162 with _verify_upload: the listing; a verified upload returns
\* True; otherwise a pause and the next pass, return False after the last
\* pass, and line 162 when the loop ends on an exception
VerifyUpload ==
    /\ up_pc = "verify"
    /\ \E out \in VerifyOutcomes :
         LET log == IF out = "raise" THEN up_log
                    ELSE Append(up_log, ListingEvent(out))
         IN  IF VerifyOk(out)
             THEN /\ up_log' = log
                  /\ up_pc' = "returned"
                  /\ up_result' = "True"
                  /\ up_attempt' = up_attempt
             ELSE IF out # "raise" /\ ~NotLastUpload(up_attempt)
             THEN /\ up_log' = log
                  /\ up_pc' = "returned"
                  /\ up_result' = "False"
                  /\ up_attempt' = up_attempt
             ELSE /\ up_log' = UploadPause(log, up_attempt)
                  /\ up_attempt' = up_attempt + 1
                  /\ IF UploadRange(up_attempt + 1)
                     THEN up_pc' = "upload_single" /\ up_result' = up_result
                     ELSE up_pc' = "returned" /\ up_result' = "False"
    /\ UNCHANGED << uploadFrame, harness, is_configured >>

NextUpload == UploaderInit \/ UploadCall \/ UploadSingle \/ VerifyUpload

SpecUpload == InitUpload /\ [][NextUpload]_vars

\* --- ThingSpeakReporter.send_status with a clock, in seconds
\* seconds between the return of one send_status call and the next call
CallGaps == { 0, 1, 20 }

\* how a requests.get call ends
RequestOutcomes ==
    { "accepted", "rejected", "http_error", "timeout", "connection_error", "exception" }

Responded(outcome) == outcome \in { "accepted", "rejected", "http_error" }

\* seconds a requests.get call takes
RequestSeconds(outcome) == IF outcome = "timeout" THEN { TS_TIMEOUT } ELSE { 0, 1 }

InitTS ==
    /\ pc = "reporter"
    /\ cycle_count = 0
    /\ files = {}
    /\ upload_backlog = << >>
    /\ harness = [ op |-> "send_status", result |-> "none", log |-> << >> ]
    /\ IdleService /\ FreshCycle
    /\ now = StartTime /\ last_update_time = 0 /\ ts_pc = "idle" /\ ts_attempt = 0
    /\ ts_calls = 0 /\ req_prev = -1 /\ req_last = -1

\* the wait send_status makes before sending, lines 66-71
RateLimitWait(t, last) ==
    IF t - last < MIN_UPDATE_INTERVAL THEN MIN_UPDATE_INTERVAL - (t - last) ELSE 0

\* send_status, lines 66-83: called, waits out the rate limit, builds the payload
SendStatusCall ==
    /\ ts_pc = "idle"
    /\ ts_calls < MaxCalls
    /\ ts_calls' = ts_calls + 1
    /\ \E gap \in CallGaps :
         now' = now + gap + RateLimitWait(now + gap, last_update_time)
    /\ ts_attempt' = 0
    /\ ts_pc' = "request"
    /\ harness' = [ harness EXCEPT !.result = "none", !.log = << >> ]
    /\ UNCHANGED << pc, cycle_count, files, upload_backlog, serviceVars, uploaderVars, cycleVars,
                    last_update_time, req_prev, req_last >>

\* one pass of the loop of send_status: how the request ended and the pause
\* made after it
Attempted(outcome, pause) == [ outcome |-> outcome, pause |-> pause ]

\* send_status, lines 85-132: one pass of the retry loop, from the start of the
\* request to the pause before the next one or to the return
SendStatusAttemptLetsExceptionOut ==
    /\ ts_pc = "request"
    /\ req_prev' = req_last
    /\ req_last' = now
    /\ \E outcome \in RequestOutcomes : \E secs \in RequestSeconds(outcome) :
         /\ last_update_time' = IF Responded(outcome) THEN now + secs ELSE last_update_time
         /\ IF outcome = "accepted"
            THEN /\ now' = now + secs
                 /\ ts_pc' = "idle"
                 /\ harness' = [ harness EXCEPT !.result = "True",
                                   !.log = Append(@, Attempted(outcome, 0)) ]
            ELSE IF outcome = "exception"
            THEN /\ now' = now + secs
                 /\ ts_pc' = "idle"
                 /\ harness' = [ harness EXCEPT !.result = "raise",
                                   !.log = Append(@, Attempted(outcome, 0)) ]
            ELSE IF ts_attempt < TS_MAX_RETRIES - 1
            THEN /\ now' = now + secs + TS_RETRY_DELAY
                 /\ ts_pc' = "request"
                 /\ harness' = [ harness EXCEPT
                                   !.log = Append(@, Attempted(outcome, TS_RETRY_DELAY)) ]
            ELSE /\ now' = now + secs
                 /\ ts_pc' = "idle"
                 /\ harness' = [ harness EXCEPT !.result = "False",
                                   !.log = Append(@, Attempted(outcome, 0)) ]
    /\ ts_attempt' = ts_attempt + 1
    /\ UNCHANGED << pc, cycle_count, files, upload_backlog, serviceVars, uploaderVars, cycleVars,
                    ts_calls >>

SendStatusAttempt ==
    /\ ts_pc = "request"
    /\ req_prev' = req_last
    /\ req_last' = now
    /\ \E outcome \in RequestOutcomes : \E secs \in RequestSeconds(outcome) :
         /\ last_update_time' = IF Responded(outcome) THEN now + secs ELSE last_update_time
         /\ IF outcome = "accepted"
            THEN /\ now' = now + secs
                 /\ ts_pc' = "idle"
                 /\ harness' = [ harness EXCEPT !.result = "True",
                                   !.log = Append(@, Attempted(outcome, 0)) ]
            ELSE IF ts_attempt < TS_MAX_RETRIES - 1
            THEN /\ now' = now + secs + TS_RETRY_DELAY
                 /\ ts_pc' = "request"
                 /\ harness' = [ harness EXCEPT
                                   !.log = Append(@, Attempted(outcome, TS_RETRY_DELAY)) ]
            ELSE /\ now' = now + secs
                 /\ ts_pc' = "idle"
                 /\ harness' = [ harness EXCEPT !.result = "False",
                                   !.log = Append(@, Attempted(outcome, 0)) ]
    /\ ts_attempt' = ts_attempt + 1
    /\ UNCHANGED << pc, cycle_count, files, upload_backlog, serviceVars, uploaderVars, cycleVars,
                    ts_calls >>

NextTS == SendStatusCall \/ SendStatusAttempt

SpecTS == InitTS /\ [][NextTS]_vars

\* ------------------------------------------------------------------ claims
InsideAttempt == pc \in { "warmup", "camera", "post_capture", "except" }

ProcessCycleReturned == pc \in { "returned", "cleanup", "write_health", "sleep" }

\* C1: the LED is LOW when an attempt of capture_image begins and when
\* capture_image has returned, with an image or with None; once the pin is set
\* up it is HIGH only inside an attempt.
C1_LedLowAroundCapture ==
    /\ pc = "led_on" => led = "LOW"
    /\ pc = "captured" => led = "LOW" /\ image \in { "img", "None" }
    /\ (gpio_initialized /\ led = "HIGH") => InsideAttempt

C1_Witness ==
    /\ pc = "captured" /\ image = "None" /\ has_gpio
    /\ attempt = CAPTURE_MAX_RETRIES /\ led = "LOW"

\* C6: when process_cycle has returned from a cycle that reached delivery, the
\* reported status and the backlog are decided by (marker detection, delivery
\* result): success with ROI reports 1, success with the full image reports 0,
\* both leaving the backlog as it was; failure reports 2 and appends one entry
\* for the saved file with retries 0.
C6_StatusByDetectionAndDelivery ==
    (pc = "returned" /\ "deliver" \in did) =>
        /\ path \in { "ok", "upload_failed" }
        /\ filepath = cycle_count /\ filepath \in files
        /\ (path = "ok" /\ aruco_detected) =>
               reports = << 1 >> /\ upload_backlog = bl_before /\ success = "True"
        /\ (path = "ok" /\ ~aruco_detected) =>
               reports = << 0 >> /\ upload_backlog = bl_before /\ success = "True"
        /\ path = "upload_failed" =>
               /\ reports = << 2 >>
               /\ success = "False"
               /\ Len(upload_backlog) = Len(bl_before) + 1
               /\ SubSeq(upload_backlog, 1, Len(bl_before)) = bl_before
               /\ upload_backlog[Len(upload_backlog)].filepath = filepath
               /\ upload_backlog[Len(upload_backlog)].retries = 0
               /\ upload_backlog[Len(upload_backlog)].aruco_detected = aruco_detected

C6_Witness ==
    /\ pc = "returned" /\ path = "upload_failed" /\ ~aruco_detected
    /\ bl_before # << >> /\ Len(upload_backlog) = Len(bl_before) + 1
    /\ reports = << 2 >>

\* the status code each branch of process_cycle determines
DeterminedStatus ==
    CASE path \in { "disk", "capture", "exception", "upload_failed" } -> 2
      [] path = "ok" /\ aruco_detected -> 1
      [] path = "ok" /\ ~aruco_detected -> 0
      [] OTHER -> -1

\* C7: on every path through process_cycle the status report is made exactly
\* once, with the status code of that path: never twice at any point, and once
\* when process_cycle has returned; with a reporter configured each report is
\* one send_status call.
C7_ReportExactlyOnce ==
    /\ Len(reports) <= 1
    /\ (ProcessCycleReturned \/ pc = "enqueue") =>
           /\ reports = << DeterminedStatus >>
           /\ path \in { "disk", "capture", "exception", "upload_failed", "ok" }
    /\ ts_sent = IF ts_configured THEN reports ELSE << >>

C7_Witness ==
    /\ pc = "returned" /\ path = "exception" /\ "save" \in did
    /\ reports = << 2 >> /\ ts_sent = << 2 >>

\* C9: after a signal, delivered at any point, the LED is LOW, the last health
\* write was the one with status "stopped" (and the file says "stopped" unless
\* that write failed), the process has exited, and nothing happens after it.
C9_ShutdownState ==
    pc = "exited" =>
        /\ shutdown_at # "none"
        /\ led = "LOW"
        /\ health_tried.status = "stopped"
        /\ health_tried.outcome = "written" => health.status = "stopped"
        /\ ~camera_open

C9_Shutdown == [] C9_ShutdownState /\ [][pc = "exited" => UNCHANGED vars]_vars

C9_Witness ==
    /\ pc = "exited" /\ shutdown_at = "camera" /\ led_at_signal = "HIGH"
    /\ led = "LOW" /\ health.status = "stopped"

\* C10: once the disk check of a cycle has seen less than MIN_FREE_DISK_MB, that
\* process_cycle call makes no capture attempt (capture_image is not called, the
\* camera is not opened), saves and delivers nothing, reports status 2 and
\* returns False.
C10_DiskFloorSkipsCapture ==
    (0 <= free_mb /\ free_mb < MIN_FREE_DISK_MB) =>
        /\ did = { "diskcheck" }
        /\ ~InsideAttempt /\ pc \notin { "capture_image", "led_on", "captured", "extract", "save", "deliver" }
        /\ ~camera_open
        /\ filepath = 0
        /\ path = "disk"
        /\ upload_backlog = bl_before
        /\ ProcessCycleReturned => reports = << 2 >> /\ success = "False"

C10_Witness ==
    /\ pc = "returned" /\ free_mb = MIN_FREE_DISK_MB - 1 /\ reports = << 2 >>
    /\ did = { "diskcheck" } /\ upload_backlog # << >>

\* C2: whatever the order of failed deliveries and drains, and however many
\* deliveries failed, the backlog never holds more than MAX_BACKLOG_SIZE entries.
C2_BacklogBounded ==
    /\ Len(upload_backlog) <= MAX_BACKLOG_SIZE
    /\ Len(retried) <= MAX_BACKLOG_SIZE

C2_Witness ==
    /\ pc = "returned" /\ cycle_count > MAX_BACKLOG_SIZE
    /\ Len(upload_backlog) = MAX_BACKLOG_SIZE
    /\ upload_backlog[1].filepath > 1

\* what a prune call was given and what it left
PruneProtected == BacklogFiles(upload_backlog)

OutsideNewest(f) ==
    Cardinality({ g \in harness.before : g > f }) >= harness.keep

\* C3: _cleanup_old_images(keep_count=K) leaves every file the backlog refers
\* to in place, and a file it deleted was outside the K newest files and was
\* referred to by no backlog entry.
C3_PruneKeepsBacklogFiles ==
    pc = "pruned" =>
        /\ files \subseteq harness.before
        /\ \A f \in harness.before :
             /\ f \in PruneProtected => f \in files
             /\ f \notin files => OutsideNewest(f) /\ f \notin PruneProtected

C3_Witness ==
    /\ pc = "pruned"
    /\ \E f \in files : OutsideNewest(f) /\ f \in PruneProtected
    /\ \E f \in harness.before : f \notin files

\* the protected files that exist outside the K newest files
PruneExtra == { f \in harness.before \cap PruneProtected : OutsideNewest(f) }

\* C4 as stated: after prune(K, protected) on a directory of at least K files,
\* exactly max(K, |protected|) files remain (here with every protected file
\* present and no unlink failing).
C4_RemainingIsMax ==
    ( /\ pc = "pruned"
      /\ Cardinality(harness.before) >= harness.keep
      /\ PruneProtected \subseteq harness.before
      /\ ~harness.failed ) =>
        Cardinality(files) = Max(harness.keep, Cardinality(PruneProtected))

\* C4 as amended: after prune(K, protected) on a directory of at least K
\* files, the files remaining are the K newest and the protected files outside
\* them when no unlink fails, K + |protected files outside the K newest| in
\* number, and at least these when an unlink fails.
C4_RemainingIsNewestPlusProtected ==
    (pc = "pruned" /\ Cardinality(harness.before) >= harness.keep) =>
        /\ Cardinality(files) >= harness.keep + Cardinality(PruneExtra)
        /\ ~harness.failed =>
             /\ files = { f \in harness.before : ~OutsideNewest(f) } \cup PruneExtra
             /\ Cardinality(files) = harness.keep + Cardinality(PruneExtra)

C4_Witness ==
    /\ pc = "pruned" /\ ~harness.failed
    /\ Cardinality(harness.before) >= harness.keep
    /\ PruneProtected \subseteq harness.before
    /\ PruneExtra # {}
    /\ files # harness.before
    /\ Cardinality(files) > Max(harness.keep, Cardinality(PruneProtected))

\* C5: two requests to the endpoint never start less than MIN_UPDATE_INTERVAL
\* seconds apart, the retry inside a call and the call after a transport error
\* included.
C5_MinIntervalBetweenRequests ==
    req_prev >= 0 => req_last - req_prev >= MIN_UPDATE_INTERVAL

\* C8: for every input, None, empty, or one the detection library raises on,
\* extract_roi returns a ROI or None and lets no exception out.
C8_ExtractTotal ==
    pc = "extracted" =>
        /\ harness.result \in { "roi", "None" }
        /\ harness.in.image \in { "None", "empty" } => harness.result = "None"

C8_Witness ==
    /\ pc = "extracted" /\ harness.result = "None"
    /\ harness.in.image = "img" /\ harness.in.cvt = "ok"
    /\ harness.in.aruco = "present" /\ harness.in.api = "error"

\* C11: in a cycle skipped for lack of disk space, the health file written at
\* the end of the cycle carries a message that tells the skip apart from any
\* other failed cycle, whose message is "Cycle #n: failed".
C11_HealthMessageTellsDiskSkip ==
    (pc = "sleep" /\ path = "disk" /\ health_tried.outcome = "written") =>
        health.message # Msg("cycle", cycle_count, "failed")

\* C12: once capture_image has returned None, the cycle body enters neither
\* extraction nor save nor delivery, writes no file, leaves the backlog as it
\* found it, reports status 2 and returns False.
C12_CaptureFailureSkipsRest ==
    image = "None" =>
        /\ pc \in { "captured", "report", "returned", "cleanup", "write_health", "sleep" }
        /\ did \cap { "extract", "save", "deliver" } = {}
        /\ filepath = 0 /\ cycle_count \notin files
        /\ upload_backlog = bl_before
        /\ pc # "captured" => path = "capture"
        /\ ProcessCycleReturned => reports = << 2 >> /\ success = "False"

C12_Witness ==
    /\ pc = "returned" /\ image = "None" /\ path = "capture"
    /\ reports = << 2 >> /\ success = "False" /\ upload_backlog # << >>

\* the save step was entered and produced no file
SaveFailed == "save" \in did /\ filepath = 0

\* C13: when saving fails (imwrite raises, or it writes no file and stat
\* raises), delivery is not attempted, status 2 is the only status reported for
\* the cycle, nothing is queued and process_cycle returns False.
C13_SaveFailureFailsCycle ==
    SaveFailed =>
        /\ pc \in { "report", "returned", "cleanup", "write_health", "sleep" }
        /\ "deliver" \notin did
        /\ path = "exception"
        /\ reports \in { << >>, << 2 >> }
        /\ cycle_count \notin files
        /\ upload_backlog = bl_before
        /\ ProcessCycleReturned => reports = << 2 >> /\ success = "False"

C13_Witness ==
    /\ pc = "cleanup" /\ SaveFailed /\ aruco_detected
    /\ reports = << 2 >> /\ success = "False"

\* C17: whatever the status report does (accepted, rejected, timed out,
\* raised), the cycle goes on as its capture, extraction and delivery decided:
\* the except branch is entered only by a failure before delivery, process_cycle
\* returns True exactly when the delivery succeeded, the backlog gains exactly
\* the entry of a failed delivery, the success counter counts exactly the
\* successful cycles and the cleanup that follows is the one of the files and
\* the backlog.
C17_CycleAfterReport ==
    (ProcessCycleReturned \/ pc = "enqueue") =>
        /\ path = "exception" => "deliver" \notin did
        /\ "deliver" \in did => path \in { "ok", "upload_failed" }
        /\ ProcessCycleReturned =>
             /\ success = IF path = "ok" THEN "True" ELSE "False"
             /\ upload_backlog =
                  IF path = "upload_failed"
                  THEN DequeAppend(bl_before, BacklogEntry(filepath, aruco_detected))
                  ELSE bl_before

C17_CountAndCleanup ==
    /\ (pc = "returned" /\ pc' = "cleanup") =>
           success_count' = success_count + (IF path = "ok" THEN 1 ELSE 0)
    /\ (pc = "cleanup" /\ pc' = "write_health") =>
           /\ files' \subseteq files
           /\ files \ files' \subseteq (files \ NewestK(files, KEEP_COUNT)) \ BacklogFiles(upload_backlog)
           /\ UNCHANGED << upload_backlog, success_count, success >>

C17_TelemetryNeverAffectsCycle == [] C17_CycleAfterReport /\ [][C17_CountAndCleanup]_vars

C17_Witness ==
    /\ pc = "write_health" /\ ts_outcome = "raise" /\ path = "ok"
    /\ success = "True" /\ success_count = 2 /\ reports = << 1 >>

\* C19: capture_image(max_retries) begins at most max_retries attempts; a
\* frame that passed the check of line 204 is returned by the attempt that took
\* it, with no further attempt; when every attempt has failed the result is
\* None; the result is never anything but an image or None; and the call
\* returns.
C19_AttemptsBounded ==
    /\ attempt <= max_retries
    /\ InsideAttempt => attempt < max_retries
    /\ pc = "captured" =>
         /\ image \in { "img", "None" }
         /\ image = "img" => attempt < max_retries
         /\ image = "None" => attempt = max_retries

C19_SuccessReturnsAtOnce ==
    pc = "post_capture" => pc' = "captured" /\ image' = "img" /\ attempt' = attempt

C19_CaptureBoundedAndTotal ==
    /\ [] C19_AttemptsBounded
    /\ [][C19_SuccessReturnsAtOnce]_vars
    /\ <>(pc = "captured")

C19_Witness ==
    /\ pc = "captured" /\ image = "None"
    /\ max_retries = MaxAttempts /\ attempt = MaxAttempts /\ led = "LOW"

\* C18: a send_status call makes at most MAX_RETRIES requests; every request
\* but the last one of the call was not accepted and is followed by a pause of
\* RETRY_DELAY seconds; the call returns True on the first accepted response,
\* False when its last request was rejected, answered with an HTTP error, timed
\* out or raised, and it never lets an exception out.
C18_SendStatusRetries ==
    LET log == harness.log
    IN  /\ Len(log) <= TS_MAX_RETRIES
        /\ harness.result \in { "none", "True", "False" }
        /\ \A i \in 1..(Len(log) - 1) :
             log[i].outcome # "accepted" /\ log[i].pause = TS_RETRY_DELAY
        /\ ts_pc = "request" =>
             /\ harness.result = "none" /\ Len(log) = ts_attempt
             /\ \A i \in 1..Len(log) :
                  log[i].outcome # "accepted" /\ log[i].pause = TS_RETRY_DELAY
        /\ (ts_pc = "idle" /\ ts_calls > 0) =>
             /\ harness.result # "none" /\ Len(log) >= 1
             /\ log[Len(log)].pause = 0
             /\ harness.result = "True" <=> log[Len(log)].outcome = "accepted"
             /\ harness.result = "False" => Len(log) = TS_MAX_RETRIES

C18_Witness ==
    /\ ts_pc = "idle" /\ harness.result = "False" /\ Len(harness.log) = TS_MAX_RETRIES
    /\ harness.log[1].outcome = "rejected" /\ harness.log[2].outcome = "exception"
    /\ req_last - req_prev <= 1 + TS_RETRY_DELAY

\* C20: when the entry of a failed delivery is appended to a backlog that holds
\* MAX_BACKLOG_SIZE entries, the backlog afterwards is the old one without its
\* head, in the same order, followed by the new entry; an append to a shorter
\* backlog evicts nothing.
C20_EnqueueStep ==
    (pc = "enqueue" /\ pc' = "returned") =>
        /\ Len(upload_backlog) = MAX_BACKLOG_SIZE =>
             /\ Len(upload_backlog') = MAX_BACKLOG_SIZE
             /\ SubSeq(upload_backlog', 1, MAX_BACKLOG_SIZE - 1) = Tail(upload_backlog)
             /\ upload_backlog'[MAX_BACKLOG_SIZE] = BacklogEntry(filepath, aruco_detected)
        /\ Len(upload_backlog) < MAX_BACKLOG_SIZE =>
             upload_backlog' = upload_backlog \o << BacklogEntry(filepath, aruco_detected) >>

C20_FullAppendEvictsOldest == [][C20_EnqueueStep]_vars

C20_Witness ==
    /\ pc = "returned" /\ path = "upload_failed"
    /\ Len(bl_before) = MAX_BACKLOG_SIZE
    /\ upload_backlog = Tail(bl_before) \o << BacklogEntry(filepath, FALSE) >>
    /\ Head(bl_before).filepath \notin BacklogFiles(upload_backlog)
    /\ Head(bl_before).retries = 0

\* C16: an entry queued before the process stops is still pending when the
\* process has started again: the new process begins with the backlog the
\* stopped one held.
C16_BacklogSurvivesRestart ==
    pc = "restarted" => upload_backlog = harness.pending

\* the transfers, the verified listings and the pauses of the current call
Events(ev) == { i \in 1..Len(up_log) : up_log[i].ev = ev }

Verified == { i \in Events("lsf") : up_log[i].ok }

UploadEligible ==
    is_configured /\ ~FolderMissing(harness.folder_id) /\ harness.exists

\* C14: a call of upload_with_verification on a configured uploader with a
\* folder id and an existing file never makes more than MAX_RETRIES = 3
\* transfers; nothing follows a verified upload, on which it returns True; and
\* it returns False only after 3 transfers none of which was verified.
C14_ThreeTransfersAtMost ==
    /\ Cardinality(Events("copy")) <= UP_MAX_RETRIES
    /\ up_attempt < UP_MAX_RETRIES \/ up_pc = "returned"
    /\ \A i \in Verified : i = Len(up_log)
    /\ up_pc \in { "upload_single", "verify" } => Verified = {}
    /\ (up_pc = "returned" /\ harness.calls > 0 /\ UploadEligible) =>
         /\ up_result \in { "True", "False" }
         /\ up_result = "True" <=> Verified # {}
         /\ up_result = "True" => Cardinality(Events("copy")) = up_attempt + 1
         /\ up_result = "False" =>
              /\ Cardinality(Events("copy")) = UP_MAX_RETRIES
              /\ \A i \in Events("sleep") : up_log[i].secs \in { 2, 5 }
              /\ Cardinality(Events("sleep")) = UP_MAX_RETRIES - 1

C14_Witness ==
    /\ up_pc = "returned" /\ up_result = "False" /\ UploadEligible
    /\ Cardinality(Events("copy")) = UP_MAX_RETRIES
    /\ Cardinality(Events("lsf")) = 2
    /\ up_log[Len(up_log)].ev = "copy"

\* C15: when the tool is not installed, the remote is not among the configured
\* ones, or the folder id is missing, every call returns False at once: no
\* subprocess is run, no pass of the retry loop is made, no pause is taken, and
\* is_configured is what it was.
C15_NotConfiguredFailsFast ==
    /\ (up_pc # "new" /\ is_configured) =>
           harness.env.which = "0" /\ harness.env.listremotes = "0" /\ harness.env.listed
    /\ ( /\ up_pc # "new" /\ harness.calls > 0
         /\ \/ harness.env.which # "0"
            \/ ~harness.env.listed
            \/ FolderMissing(harness.folder_id) ) =>
           /\ up_pc = "returned" /\ up_result = "False"
           /\ up_log = << >> /\ up_attempt = 0
           /\ is_configured = harness.before

C15_Witness ==
    /\ up_pc = "returned" /\ harness.calls = MaxUploadCalls
    /\ harness.env.which = "0" /\ harness.env.listremotes = "0" /\ ~harness.env.listed
    /\ harness.folder_id = "folder" /\ harness.exists
    /\ up_result = "False" /\ up_log = << >>

\* C28: extract_roi returns a ROI only when each of the four required ids
\* 0, 1, 2, 3 is among the detected markers; whenever one of them is missing it
\* returns None, also when four or more markers were detected with other or
\* repeated ids.
C28_RoiNeedsAllRequiredIds ==
    pc = "extracted" =>
        /\ harness.result = "roi" =>
               harness.in.found /\ REQUIRED_IDS \subseteq SeqRange(harness.in.ids)
        /\ ~(REQUIRED_IDS \subseteq SeqRange(harness.in.ids)) => harness.result = "None"

C28_Witness ==
    /\ pc = "extracted" /\ harness.result = "None"
    /\ harness.in.image = "img" /\ harness.in.found /\ harness.in.warp = "ok"
    /\ harness.in.api = "ok"
    /\ harness.in.ids = << 0, 1, 2, 4, 2 >>

\* C26: inside an attempt the steps come in one order: LED HIGH, warm-up wait,
\* camera open and frame, post-capture wait, LED LOW. The camera is open and
\* the frame is taken only while the LED is HIGH, and on the success path the
\* LED stays HIGH through the whole post-capture wait and goes LOW at its end.
C26_HighWhileCapturing ==
    /\ camera_open => pc = "camera"
    /\ has_gpio =>
         /\ pc \in { "warmup", "camera", "post_capture" } => led = "HIGH"
         /\ camera_open => led = "HIGH"

C26_StepOrder ==
    /\ (pc = "led_on" /\ pc' # pc) =>
           \/ pc' = "warmup" /\ ~camera_open'
           \/ pc' = "captured" /\ image' = "None"
    /\ pc = "warmup" => pc' \in { "camera", "except" } /\ led' = led
    /\ pc = "camera" => pc' \in { "post_capture", "except" } /\ led' = led /\ ~camera_open'
    /\ pc = "post_capture" =>
           pc' = "captured" /\ image' = "img" /\ (has_gpio => led' = "LOW")
    /\ pc = "except" => pc' = "led_on" /\ (has_gpio => led' = "LOW")

C26_AttemptOrder == [] C26_HighWhileCapturing /\ [][C26_StepOrder]_vars

C26_Witness ==
    /\ pc = "captured" /\ image = "img" /\ attempt = 1
    /\ has_gpio /\ led = "LOW" /\ ~camera_open

\* C27: the camera is open only inside an attempt, between its construction
\* and the end of the backend call: it is closed when the call returns a frame
\* and when it raises, with either backend, so it is never open between
\* attempts, when capture_image has returned, in the rest of the cycle, between
\* cycles or after exit.
C27_OpenOnlyInsideCall ==
    camera_open => pc = "camera" /\ MoreAttempts(attempt, max_retries)

C27_ClosedWhenCallEnds ==
    pc = "camera" => ~camera_open'

C27_CameraAttemptScoped == [] C27_OpenOnlyInsideCall /\ [][C27_ClosedWhenCallEnds]_vars

C27_Witness ==
    /\ pc = "post_capture" /\ image = "img" /\ ~camera_open
    /\ attempt = 1 /\ cycle_count = 2

\* C30: the health file is rewritten at the end of every cycle and on shutdown,
\* and a write that fails aborts neither: whatever the outcome of the write,
\* the cycle goes on to its wait (the shutdown to the exit) and nothing but the
\* health file has changed.
C30_HealthAtBoundary ==
    /\ pc = "sleep" =>
         /\ health_tried.status = "running"
         /\ health_tried.outcome = "written" =>
                health = HealthRecord("running",
                             Msg("cycle", cycle_count,
                                 IF success = "True" THEN "success" ELSE "failed"),
                             cycle_count, success_count, upload_backlog)
    /\ pc = "exited" =>
         /\ health_tried.status = "stopped"
         /\ health_tried.outcome = "written" =>
                health = HealthRecord("stopped", Msg("shutdown", 0, "none"),
                             cycle_count, success_count, upload_backlog)

C30_WriteNeverAborts ==
    /\ (pc = "write_health" /\ shutdown_at' = shutdown_at) =>
           /\ pc' = "sleep"
           /\ UNCHANGED << loopVars, backlogVars, files, captureVars, cycleVars,
                           ts_configured, signalVars, reporterVars, uploaderVars >>
    /\ shutdown_at' # shutdown_at =>
           /\ pc' = "exited"
           /\ UNCHANGED << loopVars, upload_backlog, files >>

C30_HealthBestEffort == [] C30_HealthAtBoundary /\ [][C30_WriteNeverAborts]_vars

C30_Witness ==
    /\ pc = "sleep" /\ cycle_count = 2
    /\ health_tried.outcome = "truncated" /\ health.status = "truncated"
    /\ success = "True"

\* ---- the backlog drain
DrainPcs == { "retry_loop", "retry_upload" }

Paths(q) == [ i \in 1..Len(q) |-> q[i].filepath ]

PopLog == SelectSeq(harness.log, LAMBDA r : r.ev = "pop")

DeliverLog == SelectSeq(harness.log, LAMBDA r : r.ev = "deliver")

FailedDeliverLog == SelectSeq(harness.log, LAMBDA r : r.ev = "deliver" /\ ~r.ok)

Increasing(q) == \A i, j \in 1..Len(q) : i < j => q[i] < q[j]

\* the drain of this cycle is over
Drained == pc \notin DrainPcs \cup { "loop_top" }

\* C23: the drain runs at the top of every cycle, before the disk check and the
\* capture; it takes every entry that was in the backlog when it began off the
\* front, oldest first, each exactly once, and the entries it puts back are in
\* the order they had.
C23_DrainState ==
    /\ pc \in DrainPcs =>
         /\ did = {} /\ free_mb = -1 /\ camera_open = FALSE /\ image = "unset"
         /\ Paths(harness.start) = Paths(PopLog) \o Paths(upload_backlog)
         /\ Paths(retried) = Paths(FailedDeliverLog)
    /\ Drained =>
         /\ Paths(PopLog) = Paths(harness.start)
         /\ \A e \in SeqRange(harness.start) :
                e.filepath \in SeqRange(Paths(FailedDeliverLog)) /\ e.retries < BACKLOG_MAX_REQUEUES
                    => e.filepath \in SeqRange(Paths(upload_backlog))
    /\ Increasing(Paths(harness.start)) /\ Increasing(Paths(upload_backlog))
    /\ Increasing(Paths(retried))

C23_DrainStep ==
    /\ (pc = "loop_top" /\ pc' # pc) =>
           /\ pc' = (IF upload_backlog = << >> THEN "process_cycle" ELSE "retry_loop")
           /\ harness'.start = upload_backlog
    /\ (pc \in DrainPcs /\ pc' \notin DrainPcs) =>
           pc' = "process_cycle" /\ upload_backlog = << >> /\ item = << >>
    /\ (pc' = "process_cycle" /\ pc' # pc) => pc \in { "loop_top", "retry_loop" }
    /\ (pc' \in DrainPcs /\ pc \notin DrainPcs) => pc = "loop_top"

C23_DrainFifoFirst == [] C23_DrainState /\ [][C23_DrainStep]_vars

C23_Witness ==
    /\ pc = "process_cycle"
    /\ Paths(harness.start) = << 1, 2, 3 >>
    /\ Paths(PopLog) = << 1, 2, 3 >>
    /\ Paths(DeliverLog) = << 1, 3 >>
    /\ Paths(upload_backlog) = << 3 >>

Pending == SeqRange(upload_backlog) \cup SeqRange(retried) \cup SeqRange(item)

\* the entry of the backlog for the given file, if there is one
EntryFor(q, f) == { e \in SeqRange(q) : e.filepath = f }

\* C24: an entry whose re-delivery fails goes back to the backlog with its retry
\* count one higher, at most BACKLOG_MAX_REQUEUES times; when the count would go
\* past that the entry is dropped. So every entry has a count of 0, 1 or 2, and
\* an entry is out of the backlog by the end of the third drain after it was
\* queued.
C24_RetriesBounded ==
    /\ \A e \in Pending : e.retries \in 0..BACKLOG_MAX_REQUEUES
    /\ Drained =>
         /\ \A e \in SeqRange(harness.start) :
              LET failed == e.filepath \in SeqRange(Paths(FailedDeliverLog))
                  kept == EntryFor(upload_backlog, e.filepath)
              IN  /\ (failed /\ e.retries < BACKLOG_MAX_REQUEUES) =>
                         kept = { [ e EXCEPT !.retries = e.retries + 1 ] }
                  /\ (failed /\ e.retries = BACKLOG_MAX_REQUEUES) => kept = {}
                  /\ ~failed => kept = {}
         /\ \A e \in SeqRange(upload_backlog) :
              /\ e.retries = cycle_count - e.filepath
              /\ cycle_count - e.filepath <= BACKLOG_MAX_REQUEUES

C24_Witness ==
    /\ pc = "process_cycle" /\ cycle_count = 4
    /\ \E e \in SeqRange(harness.start) :
         /\ e.filepath = 1 /\ e.retries = BACKLOG_MAX_REQUEUES
         /\ e.filepath \in SeqRange(Paths(FailedDeliverLog))
    /\ EntryFor(upload_backlog, 1) = {}
    /\ Paths(upload_backlog) = << 2, 3 >>

\* how many deliver calls the drain has made for the file
DeliverCalls(f) == Len(SelectSeq(harness.log, LAMBDA r : r.ev = "deliver" /\ r.filepath = f))

\* C25: in a drain, an entry whose file is no longer on disk is taken off the
\* backlog without a deliver call and is not put back; an entry whose file is
\* there gets exactly one deliver call in that drain.
C25_MissingFileDropped ==
    /\ pc = "retry_upload" => Len(item) = 1 /\ item[1].filepath \in files
    /\ pc \in DrainPcs \cup { "process_cycle" } =>
         \A i \in 1..Len(PopLog) :
            LET f == PopLog[i].filepath
            IN  IF f \in files
                THEN \/ DeliverCalls(f) = 1
                     \/ DeliverCalls(f) = 0 /\ pc = "retry_upload" /\ item[1].filepath = f
                ELSE /\ DeliverCalls(f) = 0
                     /\ \A e \in Pending : e.filepath # f

C25_Witness ==
    /\ pc = "process_cycle"
    /\ Paths(harness.start) = << 1, 2 >>
    /\ files = { 2 }
    /\ Paths(DeliverLog) = << 2 >>
    /\ Paths(upload_backlog) = << 2 >>

\* C22: the cycles begin on a fixed schedule: when the work of cycle n took
\* less than the interval, cycle n + 1 begins one interval after cycle n began;
\* when it took longer, cycle n + 1 begins as soon as the work is over.
C22_FixedSchedule ==
    \A n \in 1..(Len(harness.starts) - 1) :
        /\ harness.work[n] < capture_interval =>
               harness.starts[n + 1] = harness.starts[n] + capture_interval
        /\ harness.work[n] > capture_interval =>
               harness.starts[n + 1] = harness.starts[n] + harness.work[n]

\* C29: whichever way the process ends (a terminate or interrupt signal, a
\* fatal error, a second signal while the handler of the first is running), the
\* GPIO cleanup that forces the LED LOW and the final health write have each
\* been done exactly once, however many capture attempts ran.
C29_CleanupAndHealthOnce ==
    pc = "exited" => harness.cleanups = 1 /\ harness.writes = 1

\* C21: the service never starts a wait for the next cycle without having
\* pruned the old images and then written the health file in that cycle,
\* whatever the cycle's outcome, an exception raised during the backlog drain
\* included.
C21_StepBeforeWait ==
    /\ (pc' \in { "sleep", "error_wait" } /\ pc' # pc) => pc = "write_health"
    /\ (pc' = "write_health" /\ pc' # pc) =>
           /\ pc = "cleanup"
           /\ \E failAt \in 0..Cardinality(files) :
                files' = CleanupOldImages(files, upload_backlog, KEEP_COUNT, failAt)

C21_CleanupAlwaysRuns == [][C21_StepBeforeWait]_vars

\* ---- one call of upload_with_verification, by its log
Copies == Events("copy")

TimedOut == { i \in Copies : up_log[i].out = "timeout" }

UploadReturned == up_pc = "returned" /\ harness.calls > 0 /\ UploadEligible

\* C31: when a transfer times out, the rclone process is no longer running when
\* the attempt returns (it was killed and waited for); the attempt is a failed
\* one like any other: it is one of the MAX_RETRIES attempts, what follows it is
\* a pause and the next transfer, or the return of False after the last one;
\* the call returns True or False, never an exception.
C31_TimeoutIsFailedAttempt ==
    /\ \A i \in TimedOut :
         /\ up_log[i].child = "reaped"
         /\ ~up_log[i].ok
         /\ i < Len(up_log) => up_log[i + 1].ev = "sleep"
         /\ i + 1 < Len(up_log) => up_log[i + 2].ev = "copy"
         /\ (i = Len(up_log) /\ up_pc # "upload_single") =>
                up_pc = "returned" /\ up_result = "False"
    /\ Cardinality(Copies) <= UP_MAX_RETRIES
    /\ up_pc \in { "upload_single", "verify" } => Cardinality(Copies) = up_attempt + (IF up_pc = "verify" THEN 1 ELSE 0)
    /\ (up_pc = "returned" /\ harness.calls > 0) => up_result \in { "True", "False" }
    /\ (UploadReturned /\ Cardinality(TimedOut) = UP_MAX_RETRIES) => up_result = "False"

C31_Witness ==
    /\ UploadReturned /\ up_result = "False"
    /\ Cardinality(TimedOut) = UP_MAX_RETRIES
    /\ Cardinality(Events("sleep")) = UP_MAX_RETRIES - 1

\* C33: upload_with_verification returns True only when, in one attempt, the
\* copy ended with exit code 0 and the listing that followed it held the file
\* name. An attempt whose copy succeeded and whose verification failed (listing
\* failed, timed out, or the name is absent) is a failed attempt: it is one of
\* the MAX_RETRIES attempts and the file is copied again in the next one.
C33_TrueOnlyWhenVerified ==
    /\ (up_pc = "returned" /\ up_result = "True") =>
         /\ Len(up_log) >= 2
         /\ up_log[Len(up_log)].ev = "lsf" /\ up_log[Len(up_log)].out = "listed"
         /\ up_log[Len(up_log) - 1].ev = "copy" /\ up_log[Len(up_log) - 1].out = "0"
    /\ \A i \in Events("lsf") :
         /\ i > 1 /\ up_log[i - 1].ev = "copy" /\ up_log[i - 1].ok
         /\ up_log[i].out # "listed" =>
              /\ i < Len(up_log) => up_log[i + 1].ev = "sleep"
              /\ i + 1 < Len(up_log) => up_log[i + 2].ev = "copy"
              /\ i = Len(up_log) => up_pc = "returned" /\ up_result = "False"
                                    /\ Cardinality(Copies) = UP_MAX_RETRIES
    /\ Cardinality(Events("lsf")) <= Cardinality(Copies)
    /\ Cardinality(Copies) <= UP_MAX_RETRIES

C33_Witness ==
    /\ UploadReturned /\ up_result = "True"
    /\ Cardinality(Copies) = 3 /\ Cardinality(Events("lsf")) = 3
    /\ up_log[2].out = "missing" /\ up_log[5].out = "timeout"

\* the pauses of the call, in the order they were taken
Pauses == SelectSeq(up_log, LAMBDA r : r.ev = "sleep")

\* C34: in one call the pause after failed attempt i is RETRY_DELAYS[i], so the
\* pauses grow from one attempt to the next; a pause is taken only between two
\* attempts, never after the last attempt and never after a verified upload,
\* whether the attempt failed in the copy, in the verification or by an
\* exception.
C34_PausesByAttemptIndex ==
    /\ Len(Pauses) <= UP_MAX_RETRIES - 1
    /\ \A k \in 1..Len(Pauses) :
         /\ Pauses[k].secs = RETRY_DELAYS[k]
         /\ k > 1 => Pauses[k - 1].secs < Pauses[k].secs
    /\ \A i \in Events("sleep") :
         /\ i > 1 /\ up_log[i - 1].ev \in { "copy", "lsf" }
         /\ up_log[i - 1].ev = "lsf" => ~up_log[i - 1].ok
         /\ i < Len(up_log) => up_log[i + 1].ev = "copy"
         /\ i = Len(up_log) => up_pc = "upload_single"
    /\ up_pc \in { "upload_single", "verify" } => Len(Pauses) = up_attempt
    /\ up_pc = "returned" => (Len(up_log) > 0 => up_log[Len(up_log)].ev # "sleep")

C34_Witness ==
    /\ UploadReturned /\ up_result = "False"
    /\ Len(up_log) = 6
    /\ up_log[1].ev = "copy" /\ ~up_log[1].ok /\ up_log[2].secs = 2
    /\ up_log[3].ev = "copy" /\ up_log[3].ok /\ up_log[4].ev = "sleep" /\ up_log[4].secs = 5
    /\ up_log[5].ev = "copy" /\ up_log[6].ev = "lsf" /\ ~up_log[6].ok

\* C39: a delivery that fails because the uploader is not configured is not
\* queued for retry: with an unconfigured uploader the backlog stays empty over
\* any number of cycles.
C39_NoBacklogWhenUnconfigured ==
    ~is_configured => upload_backlog = << >> /\ retried = << >> /\ item = << >>

\* C36: success_count never exceeds cycle_count; it goes up by one at the end
\* of a cycle exactly when the delivery of the file saved in that cycle
\* succeeded, and is changed by nothing else: not by a backlog entry delivered
\* in the drain, not by what the status report returned.
C36_CountInRange == success_count <= cycle_count

C36_CountStep ==
    /\ success_count' # success_count =>
           /\ pc = "returned" /\ pc' = "cleanup"
           /\ success_count' = success_count + 1
    /\ (pc = "returned" /\ pc' = "cleanup") =>
           (success_count' = success_count + 1 <=> path = "ok" /\ "deliver" \in did)
    /\ pc \in { "retry_loop", "retry_upload", "report" } => success_count' = success_count

C36_SuccessCount == [] C36_CountInRange /\ [][C36_CountStep]_vars

C36_Witness ==
    /\ pc = "cleanup" /\ cycle_count = 2 /\ success_count = 1
    /\ path = "ok" /\ ts_outcome = "rejected"
    /\ upload_backlog = << >> /\ Cardinality(files) = 2

\* C38: a health file that has just been written, at the end of a cycle or by
\* the shutdown handler, gives as backlog_size the number of failed uploads
\* still waiting for a retry, the ones an interrupted drain has taken off the
\* queue and not yet put back included.
C38_HealthCountsPending ==
    (pc \in { "sleep", "exited" } /\ health_tried.outcome = "written") =>
        health.backlog_size = Len(upload_backlog) + Len(retried) + Len(item)

\* C40: an exception that leaves a cycle does not end the service loop: the
\* health file is written with status "error", the loop waits
\* ERROR_RETRY_SECONDS and begins another cycle. The loop ends on a shutdown
\* signal only.
C40_ErrorState ==
    /\ pc = "error_wait" =>
         /\ health_tried.status = "error"
         /\ health_tried.outcome = "written" =>
                health.status = "error" /\ health.uptime_cycles = cycle_count
    /\ pc = "exited" => shutdown_at # "none"

C40_ErrorStep ==
    /\ (pc = "error_wait" /\ shutdown_at' = shutdown_at) =>
           /\ pc' = "loop_top"
           /\ now' = now + ERROR_RETRY_SECONDS
           /\ UNCHANGED << loopVars, upload_backlog, files >>
    /\ (pc \in DrainPcs /\ shutdown_at' = shutdown_at) =>
           pc' \in DrainPcs \cup { "process_cycle", "error_wait" }

C40_LoopSurvivesException == [] C40_ErrorState /\ [][C40_ErrorStep]_vars

C40_Witness ==
    /\ pc = "process_cycle" /\ cycle_count = 3
    /\ health.status = "error" /\ health.uptime_cycles = 2
    /\ now = capture_interval + ERROR_RETRY_SECONDS

\* the deliver calls one file can get: the one of its own cycle and one per drain
\* until the retry cap
MaxDeliverCalls == 1 + (BACKLOG_MAX_REQUEUES + 1)

\* C37: for a saved file deliver is called at most 4 times in the life of the
\* process, once in the cycle that saved it and at most 3 times by the drains
\* of later cycles, which makes at most 12 transfers; after the last of these
\* calls the file has no backlog entry, so it is never tried again.
C37_DeliverCallsBounded ==
    \A f \in 1..Len(harness.calls) :
        /\ harness.calls[f] <= 4 /\ MaxDeliverCalls = 4
        /\ harness.calls[f] * UP_MAX_RETRIES <= 12
        /\ \A e \in SeqRange(upload_backlog) \cup SeqRange(item) :
               e.filepath = f => harness.calls[f] = 1 + e.retries
        /\ \A e \in SeqRange(retried) :
               e.filepath = f => harness.calls[f] = 2 + e.retries
        /\ (harness.calls[f] = MaxDeliverCalls /\ pc \notin DrainPcs) =>
               \A e \in Pending : e.filepath # f
        /\ harness.calls[f] = 0 => \A e \in Pending : e.filepath # f

C37_Witness ==
    /\ pc = "loop_top" /\ cycle_count = 4
    /\ harness.calls[1] = MaxDeliverCalls
    /\ 1 \in files
    /\ \A e \in Pending : e.filepath # 1
    /\ Paths(upload_backlog) = << 2, 3, 4 >>

\* the paths the messages of the last step name
Named == UNION { r.names : r \in harness'.records }

\* C35, the two drops of _retry_backlog: an entry the drain removes, because
\* its retries passed the cap or because its file is gone, is named by an error
\* or a warning record of that drain unless an info record reports it delivered.
C35_DrainRemovalStep ==
    (pc = "returned" /\ upload_backlog' # upload_backlog) =>
        \A e \in SeqRange(upload_backlog) :
            e.filepath \notin BacklogFiles(upload_backlog') =>
                \E r \in harness'.records : r.names = { e.filepath }

C35_DrainRemovalsLogged == [][C35_DrainRemovalStep]_vars

\* C35: every entry that leaves the backlog undelivered, dropped at the retry
\* cap, dropped because its file vanished or evicted by an append at capacity,
\* is named by a log record of the step that removed it.
C35_RemovalStep ==
    \A e \in SeqRange(upload_backlog) :
        e.filepath \notin BacklogFiles(upload_backlog') => e.filepath \in Named

CapturePcs == { "capture_image", "led_on", "warmup", "camera", "post_capture",
                "except", "captured" }

Stage(p) ==
    CASE p = "process_cycle" -> 1
      [] p \in CapturePcs -> 2
      [] p = "extract" -> 3
      [] p = "save" -> 4
      [] p = "deliver" -> 5
      [] p \in { "report", "enqueue", "returned" } -> 6
      [] p \in { "cleanup", "write_health" } -> 7
      [] p = "sleep" -> 8
      [] OTHER -> 0

\* a stage is entered only when the stages before it have run in this cycle
C32_StageState ==
    /\ Stage(pc) >= 2 => "diskcheck" \in did
    /\ Stage(pc) \in 3..5 => "capture" \in did /\ image = "img"
    /\ Stage(pc) \in 4..5 => "extract" \in did
    /\ pc = "deliver" => "save" \in did /\ filepath = cycle_count /\ filepath \in files
    /\ pc \in { "enqueue", "returned" } \cup { "cleanup", "write_health", "sleep" } =>
           Len(reports) = 1
    /\ pc \in { "process_cycle" } \cup CapturePcs \cup { "extract", "save", "deliver", "report" } =>
           reports = << >>
    /\ (Stage(pc) >= 6 /\ "deliver" \notin did) => path \in { "disk", "capture", "exception" }

\* a step inside a cycle stays in its stage, goes to the next one, or skips
\* forward to Report; the only other way out is the end of the process
C32_StageStep ==
    (Stage(pc) \in 1..7 /\ pc' # "exited") =>
        /\ Stage(pc') >= Stage(pc)
        /\ Stage(pc') <= Stage(pc) + 1 \/ pc' = "report"
        /\ (pc' = "report" /\ Stage(pc) < 5) => path' \in { "disk", "capture", "exception" }

\* the place of a position in the text of the loop body
Position(p) ==
    CASE p = "process_cycle" -> 1
      [] p = "capture_image" -> 2
      [] p = "led_on" -> 3
      [] p = "warmup" -> 4
      [] p = "camera" -> 5
      [] p \in { "post_capture", "except" } -> 6
      [] p = "captured" -> 7
      [] p = "extract" -> 8
      [] p = "save" -> 9
      [] p = "deliver" -> 10
      [] p = "report" -> 11
      [] p = "enqueue" -> 12
      [] p = "returned" -> 13
      [] p = "cleanup" -> 14
      [] p = "write_health" -> 15
      [] p = "sleep" -> 16
      [] OTHER -> 0

\* the steps of the loop body, from the disk check to the health file
CycleStep ==
    \/ DiskCheck \/ InitGpio \/ LedOn \/ CameraOpen \/ CameraCapture
    \/ CaptureReturn \/ CaptureExcept \/ CaptureLoopEnd \/ CaptureResult \/ Extract
    \/ Save \/ Deliver \/ Report \/ Enqueue \/ CountSuccess \/ Cleanup \/ CycleHealth

\* a cycle that has begun is never blocked, and every one of its steps moves
\* to a later place or begins the next of the bounded capture attempts: it
\* reaches the wait between cycles unless the process is stopped first
C32_NotBlocked == Stage(pc) \in 1..7 => ENABLED CycleStep

C32_ProgressStep ==
    (Stage(pc) \in 1..7 /\ pc' # "exited") =>
        \/ Position(pc') > Position(pc)
        \/ /\ pc = "except" /\ pc' = "led_on"
           /\ attempt' = attempt + 1 /\ attempt' <= max_retries

\* C32: a cycle goes through DiskCheck, Capture, Extract, Save, Deliver, Report
\* and Cleanup in that order, one stage at a time; a failure only skips forward
\* to Report; and a cycle that has begun always comes back to the wait between
\* cycles.
C32_StagesInOrder ==
    /\ [](C32_StageState /\ C32_NotBlocked)
    /\ [][C32_StageStep /\ C32_ProgressStep]_vars

C32_Witness ==
    /\ pc = "sleep" /\ cycle_count = 2
    /\ did = { "diskcheck", "capture", "camera", "extract", "save", "deliver" }
    /\ path = "ok" /\ reports = << 1 >> /\ success = "True"

====
